---- MODULE Spec2Model ----
(***************************************************************************)
(* Model of clim-recal's resampling engine: the Converter Managers         *)
(* (ResamplerManagerBase, CPMResamplerManager, HADsResamplerManager), the  *)
(* per-dataset Converters (CPMResampler, HADsResampler) and the            *)
(* intermediate file naming they rely on.                                  *)
(*                                                                         *)
(* A path is a sequence of string atoms in which the atom "/" separates    *)
(* the components, so that str(path) is the concatenation of the atoms and *)
(* a substring test is a test on atoms.  Python's None is <<>> for paths   *)
(* and NoneInt for integers.                                               *)
(***************************************************************************)
EXTENDS Integers, Sequences, FiniteSets, TLC

VARIABLES
    fs_dirs,        \* paths that exist and are directories
    fs_files,       \* paths that exist and are regular files
    corrupt,        \* source files whose conversion raises
    mgr,            \* the Manager instance (a record), or NoManager
    mgr_error,      \* exception raised by the last Manager operation
    log,            \* messages sent to logger.error
    configs,        \* Converters built by the last yield_configs
    pc,             \* position of execute_configs
    multiprocess,   \* how the running batch executes
    pool_cpus,      \* cpus handed to multiprocess_execute
    kw,             \* keyword arguments of the running batch
    pos,            \* per Converter: next index of its range
    written_by,     \* <<Converter index, path>>: files the Converter wrote
    last,           \* the last call: operation, arguments, returned value
    files_manager,  \* the IntermediateCPMFilesManager instance, or NoFiles
    now,            \* the clock that time_str() reads
    file_path,      \* the path handed to the file name functions
    dataset,        \* the time series handed to the calendar conversion
    config          \* the ClimRecalConfig instance, or NoConfig

vars == <<fs_dirs, fs_files, corrupt, mgr, mgr_error, log, configs, pc,
          multiprocess, pool_cpus, kw, pos, written_by, last,
          files_manager, now, file_path, dataset, config>>

\* The state of utils.xarray, as against that of the resampling classes
xarray_vars == <<files_manager, now, file_path, dataset>>
resample_vars == <<fs_files, corrupt, mgr, mgr_error, log, configs, pc,
                   multiprocess, pool_cpus, kw, pos, written_by>>

-----------------------------------------------------------------------------
(* Bounds *)

MaxVars == 2
MaxRuns == 2
NFiles == 2
MaxCpus == 3
MaxConverters == 2

-----------------------------------------------------------------------------
(* Values *)

NoneInt == 0 - 1
NonePath == <<>>
NoManager == [kind |-> "none"]

\* VariableOptions and RunOptions, in their declaration order
VariableOrder == <<"tasmax", "rainfall", "tasmin">>
RunOrder == <<"01", "05", "06">>
VariableOptions == {VariableOrder[i] : i \in DOMAIN VariableOrder}
RunOptions == {RunOrder[i] : i \in DOMAIN RunOrder}

cpm_value(var) == IF var = "rainfall" THEN "pr" ELSE var

CPM_SUB_PATH == <<"latest">>
HADS_SUB_PATH == <<"day">>

Min(a, b) == IF a <= b THEN a ELSE b

\* The runs of 1..n consecutive elements of seq
SubSeqs(seq, n) ==
    {SubSeq(seq, ab[1], ab[2]) :
        ab \in {x \in (1..Len(seq)) \X (1..Len(seq)) :
                    x[1] <= x[2] /\ x[2] - x[1] < n}}

\* Python slice seq[start:stop] for start >= 0 and stop >= 0 or None
Slice(seq, start, stop) ==
    LET hi == IF stop = NoneInt THEN Len(seq) ELSE Min(stop, Len(seq))
        lo == Min(start, Len(seq))
    IN  IF hi <= lo THEN <<>> ELSE SubSeq(seq, lo + 1, hi)

-----------------------------------------------------------------------------
(* Paths *)

\* Path(p) / q
Join(p, q) == IF q = <<>> THEN p ELSE IF p = <<>> THEN q ELSE p \o <<"/">> \o q

\* `name in str(path)`
InStr(name, path) == \E i \in DOMAIN path : path[i] = name

RECURSIVE LastSep(_, _)
LastSep(path, i) ==
    IF i = 0 THEN 0 ELSE IF path[i] = "/" THEN i ELSE LastSep(path, i - 1)

\* path.parent and path.name
Parent(path) ==
    LET i == LastSep(path, Len(path))
    IN  IF i <= 1 THEN <<>> ELSE SubSeq(path, 1, i - 1)
Name(path) == SubSeq(path, LastSep(path, Len(path)) + 1, Len(path))

IsPrefix(p, q) == Len(p) <= Len(q) /\ SubSeq(q, 1, Len(p)) = p
\* q is p or lies inside the directory p
Inside(q, p) == q = p \/ IsPrefix(p \o <<"/">>, q)

\* path and every parent of it, as mkdir(parents=True) creates them
RECURSIVE Ancestors(_)
Ancestors(path) ==
    IF path = <<>> THEN {} ELSE {path} \cup Ancestors(Parent(path))

\* str.replace(old, new) on the atoms of a name: every occurrence
Replace(name, old, new) ==
    [i \in DOMAIN name |-> IF name[i] = old THEN new ELSE name[i]]

reproject_standard_calendar_file_name(path) ==
    Join(Parent(path), Replace(Name(path), "_day", "_day_std_year"))

reproject_2_2km_file_name(path) ==
    Join(Parent(path), Replace(Name(path), "_1km", "_2_2km"))

-----------------------------------------------------------------------------
(* Dates *)

Digit == <<"0", "1", "2", "3", "4", "5", "6", "7", "8", "9">>

\* n written with `width` decimal digits, zero padded
RECURSIVE Digits(_, _)
Digits(n, width) ==
    IF width = 0 THEN <<>>
    ELSE Digits(n \div 10, width - 1) \o <<Digit[(n % 10) + 1]>>

IsLeap(year) == year % 4 = 0 /\ (year % 100 # 0 \/ year % 400 = 0)

\* Days of a month of the standard (Gregorian) calendar
DaysInMonth(year, month) ==
    IF month = 2 THEN (IF IsLeap(year) THEN 29 ELSE 28)
    ELSE IF month \in {4, 6, 9, 11} THEN 30 ELSE 31

\* cftime.Datetime360Day(year, month, day): every month has 30 days
Datetime360Day(year, month, day) ==
    [calendar |-> "360_day", year |-> year, month |-> month, day |-> day]

ValueError == [calendar |-> "ValueError"]

\* datetime.date(year, month, day), which raises ValueError when the day
\* does not exist
date(year, month, day) ==
    IF month \in 1..12 /\ day \in 1..DaysInMonth(year, month)
    THEN [calendar |-> "standard", year |-> year, month |-> month,
          day |-> day]
    ELSE ValueError

cftime360_to_date(cf_360) == date(cf_360.year, cf_360.month, cf_360.day)

\* strftime("%Y%m%d")
strftime(d) == Digits(d.year, 4) \o Digits(d.month, 2) \o Digits(d.day, 2)

date_range_to_str(start_date, end_date) ==
    strftime(start_date) \o <<"-">> \o strftime(end_date)

-----------------------------------------------------------------------------
(* Filesystem *)

RAW == <<"raw">>
VAR_BASE == <<"raw", "/", "tasmax">>
OUT == <<"out">>

\* <base>/<variable>/<run>/<sub_path> and <base>/<variable>/<sub_path>
CPMDir(base, var, run) ==
    Join(Join(Join(base, <<cpm_value(var)>>), <<run>>), CPM_SUB_PATH)
HADsDir(base, var) == Join(Join(base, <<var>>), HADS_SUB_PATH)

InputDirs ==
    {CPMDir(RAW, v, r) : v \in VariableOptions, r \in RunOptions}
        \cup {HADsDir(RAW, v) : v \in VariableOptions}

\* The first and last timestamp of the files of every input directory
DateRanges ==
    <<<<Datetime360Day(1980, 12, 1), Datetime360Day(1981, 11, 30)>>,
      <<Datetime360Day(1981, 12, 1), Datetime360Day(1982, 11, 30)>>,
      <<Datetime360Day(1982, 12, 1), Datetime360Day(1983, 11, 30)>>,
      <<Datetime360Day(1983, 12, 1), Datetime360Day(1984, 11, 30)>>>>

\* The k-th file of directory dir: <variable>_..._day_<START>-<END>.nc
SourceFile(dir, k) ==
    LET dates == date_range_to_str(DateRanges[k][1], DateRanges[k][2])
    IN  IF Name(dir) = CPM_SUB_PATH
        THEN Join(dir, <<dir[3], "_cpm_uk_2.2km_", dir[5], "_day", "_">>
                           \o dates \o <<".nc">>)
        ELSE Join(dir, <<dir[3], "_hadukgrid_uk", "_1km", "_day", "_">>
                           \o dates \o <<".nc">>)

\* glob(f"{input_path}/*.nc")
Glob(dir, dirs) ==
    IF dir \in dirs /\ dir \in InputDirs
    THEN [k \in 1..NFiles |-> SourceFile(dir, k)]
    ELSE <<>>

\* time.values[0] and time.values[-1] of the dataset stored in a source file
DateRangeOf(path) ==
    DateRanges[CHOOSE k \in DOMAIN DateRanges :
                   SourceFile(Parent(path), k) = path]

-----------------------------------------------------------------------------
(* Ordered dict: a sequence of <<key, value>> with distinct keys *)

DictKeys(d) == {d[i][1] : i \in DOMAIN d}

DictSet(d, k, v) ==
    IF k \in DictKeys(d)
    THEN [i \in DOMAIN d |-> IF d[i][1] = k THEN <<k, v>> ELSE d[i]]
    ELSE Append(d, <<k, v>>)


-----------------------------------------------------------------------------
(* ResamplerManagerBase, HADsResamplerManager, CPMResamplerManager *)

\* A PathLike | Sequence[PathLike] field
PathLike(path) == [is_path |-> TRUE, path |-> path, seq |-> <<>>]
PathSeq(seq) == [is_path |-> FALSE, path |-> NonePath, seq |-> seq]

\* The dataclass fields before __post_init__
ManagerFields(kind, variables, runs, inp, outp, strict, allow, start, stop, cpus) ==
    [kind |-> kind,
     variables |-> variables,
     runs |-> runs,
     sub_path |-> IF kind = "CPM" THEN CPM_SUB_PATH ELSE HADS_SUB_PATH,
     input_paths |-> inp,
     output_paths |-> outp,
     start_index |-> start,
     stop_index |-> stop,
     cpus |-> cpus,
     total_cpus |-> NoneInt,
     input_path |-> NonePath,
     output_path |-> NonePath,
     input_path_dict |-> <<>>,
     output_path_dict |-> <<>>,
     strict_fail_if_var_in_input_path |-> strict,
     allow_check_fail |-> allow]

\* gen_output_folder_paths with the run left out of the CPM output path
gen_output_folder_paths_without_run(m, path) ==
    IF m.kind = "CPM"
    THEN [k \in 1..(Len(m.variables) * Len(m.runs)) |->
            LET var == m.variables[((k - 1) \div Len(m.runs)) + 1]
                run == m.runs[((k - 1) % Len(m.runs)) + 1]
                out == Join(path, <<cpm_value(var)>>)
            IN  <<Join(Join(out, <<run>>), m.sub_path), out, var>>]
    ELSE [k \in 1..Len(m.variables) |->
            LET var == m.variables[k]
                out == Join(path, <<var>>)
            IN  <<Join(out, m.sub_path), out, var>>]

\* The <<input_path, output_path, var>> the generator yields, in order
gen_output_folder_paths(m, path) ==
    IF m.kind = "CPM"
    THEN [k \in 1..(Len(m.variables) * Len(m.runs)) |->
            LET var == m.variables[((k - 1) \div Len(m.runs)) + 1]
                run == m.runs[((k - 1) % Len(m.runs)) + 1]
                out == Join(Join(path, <<cpm_value(var)>>), <<run>>)
            IN  <<Join(out, m.sub_path), out, var>>]
    ELSE [k \in 1..Len(m.variables) |->
            LET var == m.variables[k]
                out == Join(path, <<var>>)
            IN  <<Join(out, m.sub_path), out, var>>]

\* dict[pairs[k][which]] = var for k = 1..n, in order
RECURSIVE AppendPathDict(_, _, _, _)
AppendPathDict(d, pairs, which, n) ==
    IF n = 0 THEN d
    ELSE DictSet(AppendPathDict(d, pairs, which, n - 1),
                 pairs[n][which], pairs[n][3])

\* set_input_paths without the strict check
set_input_paths_never_strict(m) ==
    IF m.input_paths.is_path
    THEN LET base == m.input_paths.path
             pairs == gen_output_folder_paths(m, base)
         IN  [m |-> [m EXCEPT
                      !.input_path = base,
                      !.input_paths =
                          PathSeq([k \in DOMAIN pairs |-> pairs[k][1]]),
                      !.input_path_dict =
                          AppendPathDict(m.input_path_dict, pairs, 1,
                                         Len(pairs))],
              err |-> "none",
              log |-> {}]
    ELSE [m |-> m, err |-> "none", log |-> {}]

set_input_paths(m) ==
    IF m.input_paths.is_path
    THEN LET base == m.input_paths.path
             pairs == gen_output_folder_paths(m, base)
             m1 == [m EXCEPT
                      !.input_path = base,
                      !.input_paths =
                          PathSeq([k \in DOMAIN pairs |-> pairs[k][1]]),
                      !.input_path_dict =
                          AppendPathDict(m.input_path_dict, pairs, 1,
                                         Len(pairs))]
         IN  [m |-> m1,
              err |-> IF m.strict_fail_if_var_in_input_path
                         /\ \E i \in DOMAIN m.variables :
                                InStr(m.variables[i], base)
                      THEN "VarirableInBaseImportPathError"
                      ELSE "none",
              log |-> {}]
    ELSE [m |-> m, err |-> "none", log |-> {}]

\* set_output_paths that propagates the variables again into paths that
\* are a sequence already
set_output_paths_repeated(m) ==
    IF m.output_paths.is_path
    THEN LET base == m.output_paths.path
             pairs == gen_output_folder_paths(m, base)
         IN  [m EXCEPT
                !.output_path = base,
                !.output_paths =
                    PathSeq([k \in DOMAIN pairs |-> pairs[k][2]]),
                !.output_path_dict =
                    AppendPathDict(m.output_path_dict, pairs, 2, Len(pairs))]
    ELSE [m EXCEPT
            !.output_paths =
                PathSeq([k \in DOMAIN m.output_paths.seq |->
                            Join(m.output_paths.seq[k], <<m.variables[1]>>)])]

set_output_paths(m) ==
    IF m.output_paths.is_path
    THEN LET base == m.output_paths.path
             pairs == gen_output_folder_paths(m, base)
         IN  [m EXCEPT
                !.output_path = base,
                !.output_paths =
                    PathSeq([k \in DOMAIN pairs |-> pairs[k][2]]),
                !.output_path_dict =
                    AppendPathDict(m.output_path_dict, pairs, 2, Len(pairs))]
    ELSE m

\* The input paths check_paths rejects, in order
InvalidPaths(seq, dirs) ==
    {i \in DOMAIN seq : seq[i] \notin dirs}

\* check_paths that logs an invalid path whatever allow_check_fail is
check_paths_log_only(m, dirs) ==
    LET r1 == set_input_paths(m)
        m2 == set_output_paths(r1.m)
        ins == m2.input_paths.seq
        bad == InvalidPaths(ins, dirs)
    IN  IF r1.err # "none" THEN r1
        ELSE IF Len(ins) # Len(m2.output_paths.seq)
        THEN [m |-> m2, err |-> "AssertionError", log |-> {}]
        ELSE [m |-> m2, err |-> "none",
              log |-> {[level |-> "error", msg |-> "input_paths not valid",
                        path |-> ins[i]] : i \in bad}]

check_paths(m, dirs) ==
    LET r1 == set_input_paths(m)
        m2 == set_output_paths(r1.m)
        ins == m2.input_paths.seq
        bad == InvalidPaths(ins, dirs)
    IN  IF r1.err # "none" THEN r1
        ELSE IF Len(ins) # Len(m2.output_paths.seq)
        THEN [m |-> m2, err |-> "AssertionError", log |-> {}]
        ELSE IF bad = {} THEN [m |-> m2, err |-> "none", log |-> {}]
        ELSE IF m2.allow_check_fail
        THEN [m |-> m2, err |-> "none",
              log |-> {[level |-> "error", msg |-> "input_paths not valid",
                        path |-> ins[i]] : i \in bad}]
        ELSE [m |-> m2, err |-> "FileExistsError", log |-> {}]

\* ResamplerManagerBase.__post_init__
ManagerPostInit(m, dirs, total) ==
    LET r == check_paths(m, dirs)
    IN  IF r.err # "none" THEN r
        ELSE [r EXCEPT
                !.m.total_cpus = total,
                !.m.cpus = IF m.cpus = NoneInt \/ m.cpus = 0
                           THEN (IF total = NoneInt \/ total = 0
                                 THEN 1 ELSE total)
                           ELSE m.cpus]

\* len(manager) and manager.max_count
ManagerLen(m) ==
    IF m.input_paths.is_path THEN 0
    ELSE Len(Slice(m.input_paths.seq, m.start_index, m.stop_index))

ManagerMaxCount(m) ==
    IF m.input_paths.is_path THEN 0 ELSE Len(m.input_paths.seq)

-----------------------------------------------------------------------------
(* ResamplerBase, HADsResampler, CPMResampler *)

\* ResamplerBase.__post_init__ with set_input_files
Resampler(kind, input_path, output_path, variable_name, start, stop, dirs) ==
    [kind |-> kind,
     input_path |-> input_path,
     output_path |-> output_path,
     variable_name |-> variable_name,
     start_index |-> start,
     stop_index |-> stop,
     input_files |-> Glob(input_path, dirs),
     result_paths |-> {}]

\* len(resampler) and resampler.max_count
ResamplerLen(c) == Len(Slice(c.input_files, c.start_index, c.stop_index))
ResamplerMaxCount(c) == Len(c.input_files)

\* The Converters yield_configs builds once check_paths has passed
yield_configs(m, dirs) ==
    [i \in DOMAIN m.input_path_dict |->
        Resampler(m.kind, m.input_path_dict[i][1], m.output_paths.seq[i],
                  m.input_path_dict[i][2], m.start_index, m.stop_index, dirs)]

\* Path(output_path).mkdir(parents=True, exist_ok=True) of every Converter
OutputDirs(cs) == UNION {Ancestors(cs[i].output_path) : i \in DOMAIN cs}

-----------------------------------------------------------------------------
(* IntermediateCPMFilesManager *)

CPM_LOCAL_INTERMEDIATE_PATH == <<"cpm-intermediate-files">>
CPM_365_OR_366_INTERMEDIATE_NC == "cpm-365-or-366.nc"
CPM_365_OR_366_SIMPLIFIED_NC == "cpm-365-or-366-simplified.nc"
CPM_365_OR_366_27700_TIF == "cpm-365-or-366-27700.tif"
CPM_365_OR_366_27700_FINAL == "cpm-365-or-366-27700-final.nc"

\* File extensions of GDALFormatExtensions
GDALFormatExtensions == {".nc", ".tif"}

\* path.suffix: the extension of the last component, "" without one
Suffix(path) ==
    IF Len(Name(path)) > 1 /\ path[Len(path)] \in GDALFormatExtensions
    THEN path[Len(path)]
    ELSE ""

\* time_str(): the clock as a string
time_str(t) == Digits(t, 2)

\* An IntermediateCPMFilesManager after __post_init__; err is the exception
\* that __post_init__ raised
IntermediateCPMFilesManager(variable_name, output_path, subfolder_path, time_series_start, time_series_end, file_name_prefix, subfolder_time_stamp) ==
    LET moved == Suffix(output_path) \in GDALFormatExtensions
        start == IF time_series_start.calendar = "360_day"
                 THEN cftime360_to_date(time_series_start)
                 ELSE time_series_start
        end == IF time_series_end.calendar = "360_day"
               THEN cftime360_to_date(time_series_end)
               ELSE time_series_end
    IN  [err |-> IF ValueError \in {start, end}
                 THEN "ValueError" ELSE "none",
         variable_name |-> variable_name,
         output_path |-> IF moved THEN Parent(output_path) ELSE output_path,
         passed_output_path |-> IF moved THEN output_path ELSE NonePath,
         subfolder_path |-> subfolder_path,
         time_series_start |-> start,
         time_series_end |-> end,
         file_name_prefix |-> file_name_prefix,
         subfolder_time_stamp |-> subfolder_time_stamp]

prefix_var_name_and_date(f) ==
    LET prefix == <<f.variable_name, "-">>
                      \o date_range_to_str(f.time_series_start,
                                           f.time_series_end)
                      \o <<"-">>
    IN  IF f.file_name_prefix # ""
        THEN <<f.file_name_prefix, "-">> \o prefix
        ELSE prefix

\* The accessors read the clock: t is the time of the call
subfolder(f, t) ==
    IF f.subfolder_time_stamp
    THEN Name(f.subfolder_path) \o <<"-">> \o time_str(t)
    ELSE f.subfolder_path

\* The folder taken to be output_path itself, whatever the subfolder
intermediate_files_folder_flat(f, t) == f.output_path

\* The folder, which the accessor creates with its parents
intermediate_files_folder(f, t) == Join(f.output_path, subfolder(f, t))

intermediate_nc_path(f, t) ==
    Join(intermediate_files_folder(f, t),
         <<"0-">> \o prefix_var_name_and_date(f)
             \o <<CPM_365_OR_366_INTERMEDIATE_NC>>)

simplified_nc_path(f, t) ==
    Join(intermediate_files_folder(f, t),
         <<"1-">> \o prefix_var_name_and_date(f)
             \o <<CPM_365_OR_366_SIMPLIFIED_NC>>)

intermediate_warp_path(f, t) ==
    Join(intermediate_files_folder(f, t),
         <<"2-">> \o prefix_var_name_and_date(f)
             \o <<CPM_365_OR_366_27700_TIF>>)

final_nc_path(f, t) ==
    Join(intermediate_files_folder(f, t),
         <<"3-">> \o prefix_var_name_and_date(f)
             \o <<CPM_365_OR_366_27700_FINAL>>)

\* The files a completed cpm_reproject_with_standard_calendar has written
cpm_reproject_with_standard_calendar(source_path, variable_name, output_path) ==
    LET f == IntermediateCPMFilesManager(variable_name, output_path,
                 CPM_LOCAL_INTERMEDIATE_PATH, DateRangeOf(source_path)[1],
                 DateRangeOf(source_path)[2], "", FALSE)
    IN  {intermediate_nc_path(f, 0), simplified_nc_path(f, 0),
         intermediate_warp_path(f, 0), final_nc_path(f, 0)}

-----------------------------------------------------------------------------
(* to_reprojection *)

\* _result_paths: a dict as the set of its <<key, value>> items
ItemKeys(d) == {e[1] : e \in d}
ItemSet(d, k, v) == {e \in d : e[1] # k} \cup {<<k, v>>}
ItemValue(d, k) == (CHOOSE e \in d : e[1] = k)[2]

\* self[index], 0-based
get_source_path(c, index) == c.input_files[index + 1]

converted_output_path(source_path, output_path, file_name_func) ==
    Join(output_path,
         Name(IF file_name_func = "reproject_standard_calendar_file_name"
              THEN reproject_standard_calendar_file_name(source_path)
              ELSE reproject_2_2km_file_name(source_path)))

ExportPath(c, source_path, override_export_path) ==
    IF override_export_path # NonePath THEN override_export_path
    ELSE IF c.kind = "CPM"
    THEN converted_output_path(source_path, c.output_path,
                               "reproject_standard_calendar_file_name")
    ELSE converted_output_path(source_path, c.output_path,
                               "reproject_2_2km_file_name")

\* to_reprojection recording the export path before to_netcdf has run
to_reprojection_records_first(c, index, override_export_path, return_path, write_results, output_path, raises, write_raises) ==
    IF index >= Len(c.input_files)
    THEN [c |-> c, err |-> "IndexError", files |-> {}, value |-> NonePath]
    ELSE
    LET source_path == get_source_path(c, index)
        staged == IF c.kind = "CPM"
                  THEN cpm_reproject_with_standard_calendar(source_path,
                           cpm_value(c.variable_name), output_path)
                  ELSE {}
        export_path == ExportPath(c, source_path, override_export_path)
        c2 == [c EXCEPT !.result_paths = ItemSet(@, source_path, export_path)]
    IN  IF raises
        THEN [c |-> c, err |-> "ConversionError", files |-> {},
              value |-> NonePath]
        ELSE IF write_raises /\ write_results
        THEN [c |-> c2, err |-> "OSError", files |-> staged,
              value |-> NonePath]
        ELSE [c |-> c2, err |-> "none",
              files |-> staged \cup
                  (IF write_results THEN {export_path} ELSE {}),
              value |-> IF return_path THEN export_path ELSE <<"Dataset">>]

\* CPMResampler.to_reprojection and HADsResampler.to_reprojection.
\* output_path is the keyword argument handed on to the conversion;
\* raises: the conversion raises; write_raises: to_netcdf raises.
to_reprojection(c, index, override_export_path, return_path, write_results, output_path, raises, write_raises) ==
    IF index >= Len(c.input_files)
    THEN [c |-> c, err |-> "IndexError", files |-> {}, value |-> NonePath]
    ELSE
    LET source_path == get_source_path(c, index)
        staged == IF c.kind = "CPM"
                  THEN cpm_reproject_with_standard_calendar(source_path,
                           cpm_value(c.variable_name), output_path)
                  ELSE {}
        export_path == ExportPath(c, source_path, override_export_path)
        c1 == [c EXCEPT !.result_paths = ItemSet(@, source_path, NonePath)]
        c2 == [c EXCEPT !.result_paths = ItemSet(@, source_path, export_path)]
    IN  IF raises
        THEN [c |-> c, err |-> "ConversionError", files |-> {},
              value |-> NonePath]
        ELSE IF ~write_results
        THEN [c |-> c1, err |-> "none", files |-> staged,
              value |-> IF return_path THEN export_path ELSE <<"Dataset">>]
        ELSE IF write_raises
        THEN [c |-> c1, err |-> "OSError", files |-> staged,
              value |-> NonePath]
        ELSE [c |-> c2, err |-> "none", files |-> staged \cup {export_path},
              value |-> IF return_path THEN export_path ELSE <<"Dataset">>]

\* The indices progress_wrapper passes to to_reprojection: the window
StopOf(c) ==
    IF c.stop_index = NoneInt THEN Len(c.input_files)
    ELSE Min(c.stop_index, Len(c.input_files))

Window(c) == {k \in 0..(Len(c.input_files) - 1) :
                 c.start_index <= k /\ k < StopOf(c)}

-----------------------------------------------------------------------------
(* Inputs of the Manager operations *)

VariableSeqs == SubSeqs(VariableOrder, MaxVars)
RunSeqs == SubSeqs(RunOrder, MaxRuns)

\* Directories that may be missing, or be regular files
FragileDirs == {CPMDir(RAW, "tasmax", "01"), HADsDir(RAW, "tasmax")}

InputPathArgs ==
    {PathLike(RAW), PathLike(VAR_BASE),
     PathSeq(<<HADsDir(RAW, "tasmax")>>),
     PathSeq(<<CPMDir(RAW, "tasmax", "01"), CPMDir(RAW, "tasmax", "05")>>)}

OutputPathArgs ==
    {PathLike(OUT),
     PathSeq(<<Join(OUT, <<"a">>)>>),
     PathSeq(<<Join(OUT, <<"a">>), Join(OUT, <<"b">>)>>)}

IdleBatch ==
    /\ pc = "idle"
    /\ multiprocess = FALSE
    /\ pool_cpus = NoneInt
    /\ kw = [output_path |-> NonePath, cpus |-> NoneInt]
    /\ pos = <<>>
    /\ written_by = {}

NoCall == [op |-> "none"]

NoFiles == [variable_name |-> "none"]
NoDataset == [calendar |-> "none"]
NoConfig == [convert |-> FALSE, clim_types |-> {}]

IdleXarray ==
    /\ files_manager = NoFiles
    /\ now = 0
    /\ file_path = NonePath
    /\ dataset = NoDataset

-----------------------------------------------------------------------------
(* The Manager: construction, yield_configs, len *)

InitManager ==
    /\ \E gone \in SUBSET FragileDirs : \E asfile \in SUBSET gone :
          /\ fs_dirs = InputDirs \ gone
          /\ fs_files = asfile
    /\ corrupt = {}
    /\ mgr = NoManager
    /\ mgr_error = "none"
    /\ log = {}
    /\ configs = <<>>
    /\ last = NoCall
    /\ IdleBatch
    /\ config = NoConfig
    /\ IdleXarray

\* HADsResamplerManager(...) or CPMResamplerManager(...)
Construct ==
    /\ mgr = NoManager
    /\ mgr_error = "none"
    /\ \E kind \in {"CPM", "HADs"}, variables \in VariableSeqs,
          runs \in RunSeqs, inp \in InputPathArgs, outp \in OutputPathArgs,
          strict \in BOOLEAN, allow \in BOOLEAN,
          start \in {0, 1}, stop \in {NoneInt, 1} :
          /\ kind = "HADs" => runs = <<RunOrder[1]>>
          /\ LET r == ManagerPostInit(
                          ManagerFields(kind, variables, runs, inp, outp,
                                        strict, allow, start, stop, NoneInt),
                          fs_dirs, MaxCpus)
             IN  /\ mgr_error' = r.err
                 /\ mgr' = IF r.err = "none" THEN r.m ELSE NoManager
                 /\ log' = log \cup r.log
                 /\ last' = [op |-> "construct",
                             args |-> ManagerFields(kind, variables, runs,
                                          inp, outp, strict, allow, start,
                                          stop, NoneInt)]
    /\ UNCHANGED <<xarray_vars, config>>
    /\ UNCHANGED <<fs_dirs, fs_files, corrupt, configs, pc, multiprocess,
                   pool_cpus, kw, pos, written_by>>

\* tuple(manager.yield_configs())
YieldConfigs ==
    /\ mgr # NoManager
    /\ pc = "idle"
    /\ LET r == check_paths(mgr, fs_dirs)
           cs == IF r.err = "none" THEN yield_configs(r.m, fs_dirs) ELSE <<>>
       IN  /\ mgr' = r.m
           /\ mgr_error' = r.err
           /\ log' = log \cup r.log
           /\ configs' = cs
           /\ fs_dirs' = fs_dirs \cup OutputDirs(cs)
    /\ last' = [op |-> "yield_configs", value |-> Len(configs'),
                repeated |-> configs # <<>>]
    /\ UNCHANGED <<xarray_vars, config>>
    /\ UNCHANGED <<fs_files, corrupt, pc, multiprocess, pool_cpus, kw, pos,
                   written_by>>

\* len(manager)
ManagerLenCall ==
    /\ mgr # NoManager
    /\ pc = "idle"
    /\ last' = [op |-> "len", value |-> ManagerLen(mgr)]
    /\ UNCHANGED <<xarray_vars, config>>
    /\ UNCHANGED <<fs_dirs, fs_files, corrupt, mgr, mgr_error, log, configs,
                   pc, multiprocess, pool_cpus, kw, pos, written_by>>

\* manager.max_count
ManagerMaxCountCall ==
    /\ mgr # NoManager
    /\ pc = "idle"
    /\ last' = [op |-> "max_count", value |-> ManagerMaxCount(mgr)]
    /\ UNCHANGED <<xarray_vars, config>>
    /\ UNCHANGED <<fs_dirs, fs_files, corrupt, mgr, mgr_error, log, configs,
                   pc, multiprocess, pool_cpus, kw, pos, written_by>>

\* The environment removes an input directory
RemoveDir ==
    /\ mgr # NoManager
    /\ \E d \in FragileDirs \cap fs_dirs : fs_dirs' = fs_dirs \ {d}
    /\ last' = [op |-> "rmdir"]
    /\ UNCHANGED <<xarray_vars, config>>
    /\ UNCHANGED <<fs_files, corrupt, mgr, mgr_error, log, configs, pc,
                   multiprocess, pool_cpus, kw, pos, written_by>>

NextManager ==
    \/ Construct
    \/ YieldConfigs
    \/ ManagerLenCall
    \/ ManagerMaxCountCall
    \/ RemoveDir

SpecManager == InitManager /\ [][NextManager]_vars

-----------------------------------------------------------------------------
(* Properties of the Manager *)

\* The input paths a Manager with the fields args validates
ResolvedInputs(args) == set_input_paths(args).m.input_paths.seq

\* The (variable, run) pairs of a Manager
Combinations(m) ==
    IF m.kind = "CPM"
    THEN {<<m.variables[v], m.runs[r]>> :
             v \in DOMAIN m.variables, r \in DOMAIN m.runs}
    ELSE {<<m.variables[v], "">> : v \in DOMAIN m.variables}

CombinationDir(m, vr) ==
    IF m.kind = "CPM" THEN CPMDir(m.input_path, vr[1], vr[2])
    ELSE HADsDir(m.input_path, vr[1])

YieldedFromBase ==
    /\ last.op = "yield_configs"
    /\ mgr_error = "none"
    /\ mgr.input_path # NonePath
    /\ mgr.output_path # NonePath

\* C4: a Manager built from a base input path and a base output path yields
\* exactly one Converter per (variable, run) pair (per variable for HADs),
\* so V x R (V) of them, and no two of their output paths are equal or
\* nested.
C4_OneConverterPerCombination ==
    YieldedFromBase =>
        /\ Len(configs) = Cardinality(Combinations(mgr))
        /\ Len(configs) = IF mgr.kind = "CPM"
                          THEN Len(mgr.variables) * Len(mgr.runs)
                          ELSE Len(mgr.variables)
        /\ \A vr \in Combinations(mgr) :
              Cardinality({i \in DOMAIN configs :
                  /\ configs[i].variable_name = vr[1]
                  /\ configs[i].input_path = CombinationDir(mgr, vr)}) = 1
        /\ \A i, j \in DOMAIN configs :
              i # j => ~Inside(configs[i].output_path, configs[j].output_path)

C4_Witness ==
    /\ YieldedFromBase
    /\ mgr.kind = "CPM"
    /\ Len(mgr.variables) = 2
    /\ Len(mgr.runs) = 2
    /\ Len(configs) = 4

YieldedFromLists ==
    /\ last.op = "yield_configs"
    /\ mgr_error = "none"
    /\ mgr.input_path = NonePath
    /\ mgr.output_path = NonePath

\* C5: a Manager built from a list of k existing input paths and a list of
\* k output paths yields k Converters, the i-th reading the i-th input path
\* and writing to the i-th output path; lists of different lengths fail
\* the construction.
C5_ExplicitLists ==
    /\ YieldedFromLists =>
          /\ Len(configs) = Len(mgr.input_paths.seq)
          /\ \A i \in DOMAIN configs :
                /\ configs[i].input_path = mgr.input_paths.seq[i]
                /\ configs[i].output_path = mgr.output_paths.seq[i]
    /\ (/\ last.op = "construct"
        /\ ~last.args.input_paths.is_path
        /\ ~last.args.output_paths.is_path
        /\ Len(last.args.input_paths.seq) # Len(last.args.output_paths.seq))
          => mgr = NoManager /\ mgr_error # "none"

RECURSIVE FileCount(_, _, _, _, _)
\* Source files of the first n input paths, inside the window start..stop
FileCount(paths, n, start, stop, dirs) ==
    IF n = 0 THEN 0
    ELSE FileCount(paths, n - 1, start, stop, dirs)
             + Len(Slice(Glob(paths[n], dirs), start, stop))

\* C6: len(manager) is the number of source files of all input paths that
\* lie inside the index window, and max_count the number of all of them.
C6_LenCountsFiles ==
    /\ last.op = "len" =>
          last.value = FileCount(mgr.input_paths.seq,
                                 Len(mgr.input_paths.seq),
                                 mgr.start_index, mgr.stop_index, fs_dirs)
    /\ last.op = "max_count" =>
          last.value = FileCount(mgr.input_paths.seq,
                                 Len(mgr.input_paths.seq), 0, NoneInt,
                                 fs_dirs)

ConstructedFromVarBase ==
    /\ last.op = "construct"
    /\ last.args.input_paths.is_path
    /\ \E i \in DOMAIN last.args.variables :
          InStr(last.args.variables[i], last.args.input_paths.path)

\* What the existence check reports for a non-strict construction whose
\* derived directories are missing
ReportsMissingDerived ==
    (/\ ~last.args.allow_check_fail
     /\ last.args.output_paths.is_path
     /\ \E i \in DOMAIN ResolvedInputs(last.args) :
           ResolvedInputs(last.args)[i] \notin fs_dirs)
        => mgr_error = "FileExistsError" /\ mgr = NoManager

\* C9 as stated: a strict construction from a base input path whose string
\* contains a variable name raises VarirableInBaseImportPathError; a
\* non-strict one does not, logs the finding instead, and a missing derived
\* directory is reported as FileExistsError.
C9_NonStrictLogs ==
    ConstructedFromVarBase =>
        IF last.args.strict_fail_if_var_in_input_path
        THEN mgr_error = "VarirableInBaseImportPathError" /\ mgr = NoManager
        ELSE /\ mgr_error # "VarirableInBaseImportPathError"
             /\ \E l \in log : l.path = last.args.input_paths.path
             /\ ReportsMissingDerived

\* C9 amended: a strict construction from a base input path whose string
\* contains a variable name raises VarirableInBaseImportPathError; a
\* non-strict one does not and logs nothing about the base path, and a
\* missing derived directory is reported as FileExistsError.
C9_NonStrictSilent ==
    ConstructedFromVarBase =>
        IF last.args.strict_fail_if_var_in_input_path
        THEN mgr_error = "VarirableInBaseImportPathError" /\ mgr = NoManager
        ELSE /\ mgr_error # "VarirableInBaseImportPathError"
             /\ \A l \in log : l.path # last.args.input_paths.path
             /\ ReportsMissingDerived

C9_Witness ==
    /\ ConstructedFromVarBase
    /\ ~last.args.strict_fail_if_var_in_input_path
    /\ ~last.args.allow_check_fail
    /\ mgr_error = "FileExistsError"

\* The resolved input paths that are not existing directories
NotDirs(paths) == {paths[i] : i \in {j \in DOMAIN paths : paths[j] \notin fs_dirs}}

ReachedExistenceCheck ==
    /\ last.op \in {"construct", "yield_configs"}
    /\ mgr_error \notin {"VarirableInBaseImportPathError", "AssertionError"}

\* C10: when construction or yield_configs reaches the existence check and
\* a resolved input path is not an existing directory, FileExistsError is
\* raised and no Manager (Converter) is built, unless allow_check_fail is
\* set: then every such path is logged, nothing is raised and the
\* Converters are built.
C10_ExistenceCheck ==
    ReachedExistenceCheck =>
        LET args == IF last.op = "construct" THEN last.args ELSE mgr
            paths == ResolvedInputs(args)
        IN  IF NotDirs(paths) = {} THEN mgr_error = "none"
            ELSE IF args.allow_check_fail
            THEN /\ mgr_error = "none"
                 /\ mgr # NoManager
                 /\ \A q \in NotDirs(paths) :
                       \E l \in log : l.level = "error" /\ l.path = q
                 /\ last.op = "yield_configs" =>
                       Len(configs) = Len(mgr.input_path_dict)
            ELSE /\ mgr_error = "FileExistsError"
                 /\ last.op = "construct" => mgr = NoManager
                 /\ last.op = "yield_configs" => configs = <<>>

C10_Witness ==
    /\ last.op = "yield_configs"
    /\ mgr_error = "FileExistsError"
    /\ configs = <<>>

-----------------------------------------------------------------------------
(* execute_configs *)

\* Where the batch puts the intermediate files of the CPM conversion
WORK == <<"work">>

Given(n) == n # NoneInt /\ n # 0

\* PoolCpus capped at the total number of cpus
PoolCpusNoHeadroom(m, cpus) ==
    LET requested == IF Given(cpus) THEN cpus ELSE m.cpus
    IN  IF Given(m.total_cpus) /\ Given(requested)
        THEN Min(requested, m.total_cpus)
        ELSE requested

\* The cpus execute_configs hands to multiprocess_execute
PoolCpus(m, cpus) ==
    LET requested == IF Given(cpus) THEN cpus ELSE m.cpus
    IN  IF Given(m.total_cpus) /\ Given(requested)
        THEN Min(requested, m.total_cpus - 1)
        ELSE requested

Remaining(cs, p) == {i \in DOMAIN cs : p[i] < StopOf(cs[i])}

\* manager.execute_configs(multiprocess=mp, cpus=cpus, output_path=WORK)
ExecuteConfigs ==
    /\ mgr # NoManager
    /\ pc = "idle"
    /\ \E mp \in BOOLEAN, cpus \in {NoneInt} \cup 1..MaxCpus :
          LET r == check_paths(mgr, fs_dirs)
              cs == IF r.err = "none" THEN yield_configs(r.m, fs_dirs)
                    ELSE <<>>
              p == [i \in DOMAIN cs |-> cs[i].start_index]
          IN  /\ mgr' = r.m
              /\ mgr_error' = r.err
              /\ log' = log \cup r.log
              /\ configs' = cs
              /\ fs_dirs' = fs_dirs \cup OutputDirs(cs)
              /\ multiprocess' = mp
              /\ pool_cpus' = IF mp /\ r.err = "none"
                              THEN PoolCpus(r.m, cpus) ELSE NoneInt
              /\ kw' = [output_path |-> WORK, cpus |-> cpus]
              /\ pos' = p
              /\ pc' = IF r.err # "none" THEN "raised"
                       ELSE IF Remaining(cs, p) = {} THEN "done"
                       ELSE "running"
              /\ last' = [op |-> "execute_configs"]
    /\ UNCHANGED <<xarray_vars, config>>
    /\ UNCHANGED <<fs_files, corrupt, written_by>>

\* What one to_reprojection call of Converter i leaves behind
Reprojected(i, r) ==
    /\ fs_files' = fs_files \cup r.files
    /\ written_by' = written_by \cup {<<i, f>> : f \in r.files}
    /\ last' = [op |-> "to_reprojection", converter |-> i, err |-> r.err]

\* Sequential branch: resampler.execute() of the next Converter's next
\* file; an exception leaves execute_configs
SequentialStep ==
    /\ pc = "running"
    /\ ~multiprocess
    /\ LET i == CHOOSE j \in Remaining(configs, pos) :
                    \A k \in Remaining(configs, pos) : j <= k
           src == get_source_path(configs[i], pos[i])
           r == to_reprojection(configs[i], pos[i], NonePath, TRUE, TRUE,
                                kw.output_path, src \in corrupt, FALSE)
           p == [pos EXCEPT ![i] = @ + 1]
           cs == [configs EXCEPT ![i] = r.c]
       IN  /\ Reprojected(i, r)
           /\ configs' = cs
           /\ IF r.err # "none"
              THEN /\ pc' = "aborted"
                   /\ mgr_error' = r.err
                   /\ pos' = pos
              ELSE /\ pc' = IF Remaining(cs, p) = {} THEN "done"
                            ELSE "running"
                   /\ mgr_error' = mgr_error
                   /\ pos' = p
    /\ UNCHANGED <<xarray_vars, config>>
    /\ UNCHANGED <<fs_dirs, corrupt, mgr, log, multiprocess, pool_cpus, kw>>

\* multiprocess_execute: a worker converts the next file of its Converter;
\* an exception is caught at the worker boundary and recorded as None
WorkerStep ==
    /\ pc = "running"
    /\ multiprocess
    /\ \E i \in Remaining(configs, pos) :
          LET src == get_source_path(configs[i], pos[i])
              r == to_reprojection(configs[i], pos[i], NonePath, TRUE, TRUE,
                                   kw.output_path, src \in corrupt, FALSE)
              p == [pos EXCEPT ![i] = @ + 1]
              c == IF r.err = "none" THEN r.c
                   ELSE [configs[i] EXCEPT
                           !.result_paths = ItemSet(@, src, NonePath)]
              cs == [configs EXCEPT ![i] = c]
          IN  /\ Reprojected(i, r)
              /\ configs' = cs
              /\ pos' = p
              /\ pc' = IF Remaining(cs, p) = {} THEN "done" ELSE "running"
    /\ UNCHANGED <<xarray_vars, config>>
    /\ UNCHANGED <<fs_dirs, corrupt, mgr, mgr_error, log, multiprocess,
                   pool_cpus, kw>>

\* The Managers the batch runs start from
BatchManagerArgs(cpus_set, totals, vseqs, rseqs) ==
    {a \in {"CPM", "HADs"} \X vseqs \X rseqs \X {0, 1} \X {NoneInt, 1}
               \X cpus_set \X totals :
        /\ a[1] = "HADs" => a[3] = <<RunOrder[1]>>
        /\ Len(a[2]) * Len(a[3]) <= MaxConverters}

BatchManagers(cpus_set, totals, vseqs, rseqs) ==
    {ManagerPostInit(
         ManagerFields(a[1], a[2], a[3], PathLike(RAW), PathLike(OUT),
                       TRUE, FALSE, a[4], a[5], a[6]),
         InputDirs, a[7]).m :
     a \in BatchManagerArgs(cpus_set, totals, vseqs, rseqs)}

ManagerFiles(m) ==
    {SourceFile(m.input_paths.seq[i], k) :
        i \in DOMAIN m.input_paths.seq, k \in 1..NFiles}

InitBatch ==
    /\ fs_dirs = InputDirs
    /\ fs_files = {}
    /\ mgr \in BatchManagers({NoneInt}, {MaxCpus}, VariableSeqs, RunSeqs)
    /\ corrupt \in {c \in SUBSET ManagerFiles(mgr) : Cardinality(c) <= 1}
    /\ mgr_error = "none"
    /\ log = {}
    /\ configs = <<>>
    /\ last = NoCall
    /\ IdleBatch
    /\ config = NoConfig
    /\ IdleXarray

NextBatch ==
    \/ ExecuteConfigs
    \/ SequentialStep
    \/ WorkerStep

SpecBatch == InitBatch /\ [][NextBatch]_vars

InitPool ==
    /\ fs_dirs = InputDirs
    /\ fs_files = {}
    /\ mgr \in BatchManagers({NoneInt} \cup 1..MaxCpus,
                             {NoneInt} \cup 1..(MaxCpus + 1),
                             {<<VariableOrder[1]>>}, {<<RunOrder[1]>>})
    /\ corrupt = {}
    /\ mgr_error = "none"
    /\ log = {}
    /\ configs = <<>>
    /\ last = NoCall
    /\ IdleBatch
    /\ config = NoConfig
    /\ IdleXarray

SpecPool == InitPool /\ [][NextBatch]_vars

-----------------------------------------------------------------------------
(* A Converter called directly *)

OVERRIDE == <<"out", "/", "override", ".nc">>

InitConverter ==
    /\ fs_dirs = InputDirs \cup Ancestors(Join(OUT, <<"direct">>))
    /\ fs_files = {}
    /\ mgr = NoManager
    /\ mgr_error = "none"
    /\ log = {}
    /\ \E kind \in {"CPM", "HADs"},
          var \in {VariableOrder[1], VariableOrder[2]},
          start \in {0}, stop \in {NoneInt} :
          LET dir == IF kind = "CPM" THEN CPMDir(RAW, var, RunOrder[1])
                     ELSE HADsDir(RAW, var)
          IN  /\ configs = <<Resampler(kind, dir, Join(OUT, <<"direct">>),
                                       var, start, stop, InputDirs)>>
              /\ corrupt \in {c \in SUBSET {SourceFile(dir, k) :
                                               k \in 1..NFiles} :
                                 Cardinality(c) <= 1}
    /\ last = NoCall
    /\ IdleBatch
    /\ config = NoConfig
    /\ IdleXarray

\* resampler.to_reprojection(index, override_export_path, return_path,
\*                           write_results, output_path=WORK)
ToReprojection ==
    /\ pc = "idle"
    /\ configs # <<>>
    /\ \E i \in DOMAIN configs, index \in 0..NFiles,
          override \in {NonePath, OVERRIDE},
          return_path \in BOOLEAN, write_results \in BOOLEAN,
          write_raises \in BOOLEAN :
          /\ write_raises => write_results
          /\ LET raises == /\ index < Len(configs[i].input_files)
                        /\ get_source_path(configs[i], index) \in corrupt
                 r == to_reprojection(configs[i], index, override,
                          return_path, write_results, WORK, raises,
                          write_raises)
             IN  /\ configs' = [configs EXCEPT ![i] = r.c]
                 /\ fs_files' = fs_files \cup r.files
                 /\ written_by' = written_by \cup {<<i, f>> : f \in r.files}
                 /\ last' = [op |-> "to_reprojection", converter |-> i,
                             err |-> r.err, index |-> index,
                             override_export_path |-> override,
                             return_path |-> return_path,
                             write_results |-> write_results,
                             value |-> r.value]
    /\ UNCHANGED <<xarray_vars, config>>
    /\ UNCHANGED <<fs_dirs, corrupt, mgr, mgr_error, log, pc, multiprocess,
                   pool_cpus, kw, pos>>

NextConverter == ToReprojection

SpecConverter == InitConverter /\ [][NextConverter]_vars

-----------------------------------------------------------------------------
(* Properties of the batch and of the Converters *)

Finished == pc \in {"done", "aborted"}

HasEntry(c, src) == src \in ItemKeys(c.result_paths)

\* C1: when a batch has ended, every source file inside the window whose
\* conversion does not raise has been converted, in every Converter: its
\* result entry is its output path and the output file exists, whatever
\* other files of the batch raised.
C1_BadFileDoesNotAbort ==
    Finished =>
        \A i \in DOMAIN configs : \A k \in Window(configs[i]) :
            LET src == get_source_path(configs[i], k)
                out == ExportPath(configs[i], src, NonePath)
            IN  src \notin corrupt =>
                    /\ HasEntry(configs[i], src)
                    /\ ItemValue(configs[i].result_paths, src) = out
                    /\ out \in fs_files

\* C2: when a batch has ended, every source file inside the window has an
\* entry in the result map of its Converter: the output path when the file
\* was written, None when its processing raised.
C2_EveryFileHasEntry ==
    Finished =>
        \A i \in DOMAIN configs : \A k \in Window(configs[i]) :
            LET src == get_source_path(configs[i], k)
                out == ExportPath(configs[i], src, NonePath)
            IN  /\ HasEntry(configs[i], src)
                /\ ItemValue(configs[i].result_paths, src) =
                       IF src \in corrupt THEN NonePath ELSE out

\* C3: after to_reprojection(index) has returned, the result map holds an
\* entry for the source path of index: None when write_results is false,
\* the export path when it is true; and an entry that is not None names a
\* file that has been written.
C3_ResultEntry ==
    /\ (last.op = "to_reprojection" /\ last.err = "none") =>
          LET c == configs[last.converter]
              src == get_source_path(c, last.index)
          IN  /\ HasEntry(c, src)
              /\ ItemValue(c.result_paths, src) =
                     IF last.write_results
                     THEN ExportPath(c, src, last.override_export_path)
                     ELSE NonePath
    /\ \A i \in DOMAIN configs : \A e \in configs[i].result_paths :
          e[2] # NonePath => e[2] \in fs_files

C3_Witness ==
    /\ last.op = "to_reprojection"
    /\ last.err = "none"
    /\ ~last.write_results
    /\ \E i \in DOMAIN configs : \E e \in configs[i].result_paths :
          e[2] # NonePath

\* C7: in a multiprocess batch of a Manager that knows the total number of
\* cpus, the cpus handed to the pool are min(requested, total - 1), the
\* requested cpus being the cpus argument, or the Manager's cpus without it.
C7_PoolSize ==
    (pc \in {"running", "done"} /\ multiprocess
        /\ mgr.total_cpus # NoneInt) =>
        LET requested == IF kw.cpus # NoneInt THEN kw.cpus ELSE mgr.cpus
        IN  pool_cpus = Min(requested, mgr.total_cpus - 1)

C7_Witness ==
    /\ pc \in {"running", "done"}
    /\ multiprocess
    /\ kw.cpus = MaxCpus
    /\ mgr.total_cpus = MaxCpus
    /\ pool_cpus = MaxCpus - 1

\* C8: in a multiprocess batch no file is written by two Converters, be it
\* a final output file or a stage 0-3 intermediate file.
C8_DisjointWrites ==
    multiprocess =>
        \A x, y \in written_by : x[2] = y[2] => x[1] = y[1]

-----------------------------------------------------------------------------
(* IntermediateCPMFilesManager on its own: construction, the path          *)
(* accessors and the clock                                                 *)

MaxTicks == 2

StageAccessors ==
    {"intermediate_nc_path", "simplified_nc_path", "intermediate_warp_path",
     "final_nc_path"}

\* getattr(f, accessor) at time t
Accessor(accessor, f, t) ==
    CASE accessor = "intermediate_files_folder" ->
             intermediate_files_folder(f, t)
      [] accessor = "intermediate_nc_path" -> intermediate_nc_path(f, t)
      [] accessor = "simplified_nc_path" -> simplified_nc_path(f, t)
      [] accessor = "intermediate_warp_path" -> intermediate_warp_path(f, t)
      [] accessor = "final_nc_path" -> final_nc_path(f, t)

RESULT_NC == <<"out", "/", "result", ".nc">>
TEST_SUBFOLDER == <<"tmp", "/", "test_subfolder">>

\* Timestamps a time series can start or end with
FilesDates ==
    {Datetime360Day(1980, 12, 1), Datetime360Day(1981, 2, 30),
     Datetime360Day(1981, 11, 30), date(1981, 11, 30)}

IdleResample ==
    /\ fs_files = {}
    /\ corrupt = {}
    /\ mgr = NoManager
    /\ mgr_error = "none"
    /\ log = {}
    /\ configs = <<>>
    /\ IdleBatch

InitFiles ==
    /\ fs_dirs = Ancestors(OUT)
    /\ last = NoCall
    /\ IdleResample
    /\ config = NoConfig
    /\ IdleXarray

\* IntermediateCPMFilesManager(...)
ConstructFiles ==
    /\ files_manager = NoFiles
    /\ last = NoCall
    /\ \E output_path \in {NonePath, OUT, RESULT_NC},
          subfolder_path \in {CPM_LOCAL_INTERMEDIATE_PATH, TEST_SUBFOLDER},
          time_series_start \in FilesDates, time_series_end \in FilesDates,
          file_name_prefix \in {"", "test-1980"},
          subfolder_time_stamp \in BOOLEAN :
          LET f == IntermediateCPMFilesManager(VariableOrder[1], output_path,
                       subfolder_path, time_series_start, time_series_end,
                       file_name_prefix, subfolder_time_stamp)
          IN  /\ files_manager' = IF f.err = "none" THEN f ELSE NoFiles
              /\ last' = [op |-> "IntermediateCPMFilesManager",
                          err |-> f.err,
                          output_path |-> output_path,
                          time_series_start |-> time_series_start,
                          time_series_end |-> time_series_end,
                          value |-> f]
    /\ UNCHANGED <<fs_dirs, now, file_path, dataset,
                   config>>
    /\ UNCHANGED resample_vars

\* files_manager.<accessor>
AccessPath ==
    /\ files_manager # NoFiles
    /\ \E accessor \in {"intermediate_files_folder"} \cup StageAccessors :
          /\ fs_dirs' = fs_dirs \cup
                 Ancestors(intermediate_files_folder(files_manager, now))
          /\ last' = [op |-> "accessor", accessor |-> accessor,
                      time |-> now,
                      value |-> Accessor(accessor, files_manager, now)]
    /\ UNCHANGED <<files_manager, now, file_path, dataset,
                   config>>
    /\ UNCHANGED resample_vars

\* Time passes between two calls
Tick ==
    /\ now < MaxTicks
    /\ now' = now + 1
    /\ UNCHANGED <<fs_dirs, last, files_manager, file_path, dataset,
                   config>>
    /\ UNCHANGED resample_vars

NextFiles == ConstructFiles \/ AccessPath \/ Tick

SpecFiles == InitFiles /\ [][NextFiles]_vars

\* The folders the accessors have created
IntermediateDirs ==
    {d \in fs_dirs \ Ancestors(OUT) : ~ \E e \in fs_dirs : Parent(e) = d}

\* C11: calling a path accessor again on the same configuration returns the
\* same path as the call before, and the accessors leave exactly one
\* intermediate directory on disk, also with subfolder_time_stamp set.
C11_AccessorsIdempotent ==
    /\ [](last.op = "accessor" => Cardinality(IntermediateDirs) = 1)
    /\ [][(/\ last.op = "accessor"
           /\ last'.op = "accessor"
           /\ last'.accessor = last.accessor)
              => last'.value = last.value]_vars

\* The name {stage}-{optional prefix}-{variable}-{start}-{end}-{suffix}
StageName(accessor, f) ==
    LET stage == CASE accessor = "intermediate_nc_path" -> "0-"
                   [] accessor = "simplified_nc_path" -> "1-"
                   [] accessor = "intermediate_warp_path" -> "2-"
                   [] accessor = "final_nc_path" -> "3-"
        suffix == CASE accessor = "intermediate_nc_path" ->
                           "cpm-365-or-366.nc"
                    [] accessor = "simplified_nc_path" ->
                           "cpm-365-or-366-simplified.nc"
                    [] accessor = "intermediate_warp_path" ->
                           "cpm-365-or-366-27700.tif"
                    [] accessor = "final_nc_path" ->
                           "cpm-365-or-366-27700-final.nc"
    IN  <<stage>>
            \o (IF f.file_name_prefix = "" THEN <<>>
                ELSE <<f.file_name_prefix, "-">>)
            \o <<f.variable_name, "-">>
            \o strftime(f.time_series_start) \o <<"-">>
            \o strftime(f.time_series_end) \o <<"-", suffix>>

\* C12: the four stage paths are pairwise distinct, each lies directly in
\* the folder output_path/subfolder and is named
\* {stage}-{optional prefix}-{variable}-{start}-{end}-{stage-suffix}; an
\* output path with a raster/array extension is replaced by its parent.
C12_StagePaths ==
    /\ (last.op = "IntermediateCPMFilesManager" /\ last.err = "none")
          => files_manager.output_path =
                 IF last.output_path # NonePath
                       /\ last.output_path[Len(last.output_path)]
                              \in {".nc", ".tif"}
                 THEN Parent(last.output_path)
                 ELSE last.output_path
    /\ (last.op = "accessor" /\ last.accessor \in StageAccessors)
          => /\ Parent(last.value) =
                    Join(files_manager.output_path,
                         subfolder(files_manager, last.time))
             /\ Parent(last.value) \in fs_dirs
             /\ Name(last.value) = StageName(last.accessor, files_manager)
             /\ \A a \in StageAccessors \ {last.accessor} :
                    Accessor(a, files_manager, last.time) # last.value

C12_Witness ==
    /\ last.op = "accessor"
    /\ last.accessor = "final_nc_path"
    /\ files_manager.file_name_prefix # ""
    /\ files_manager.passed_output_path = RESULT_NC
    /\ files_manager.subfolder_time_stamp
    /\ last.time > 0

\* C13: a start or end timestamp of the 360-day calendar is normalized to
\* the plain date of the same year, month and day, without error, for every
\* date of the 360-day calendar.
C13_Normalizes360Dates ==
    last.op = "IntermediateCPMFilesManager"
        => /\ last.err = "none"
           /\ \A p \in {<<last.time_series_start,
                            last.value.time_series_start>>,
                          <<last.time_series_end,
                            last.value.time_series_end>>} :
                  /\ p[2].calendar = "standard"
                  /\ <<p[2].year, p[2].month, p[2].day>>
                         = <<p[1].year, p[1].month, p[1].day>>

-----------------------------------------------------------------------------
(* File names: file_name_to_start_end_dates and the output file names      *)

MaxTokens == 3

\* The atoms of a name that hold an underscore, with the text that follows
\* their last underscore
UnderscoreAtoms ==
    {"_", "_day", "_1km", "_a", "_cpm_uk_2.2km_", "_hadukgrid_uk",
     "_day_std_year", "_2_2km"}
UnderscoreTail(atom) ==
    CASE atom = "_day" -> <<"day">>
      [] atom = "_1km" -> <<"1km">>
      [] atom = "_a" -> <<"a">>
      [] atom = "_hadukgrid_uk" -> <<"uk">>
      [] atom = "_day_std_year" -> <<"year">>
      [] atom = "_2_2km" -> <<"2km">>
      [] OTHER -> <<>>

\* The last index of name holding an atom of the set, 0 without one
RECURSIVE LastIn(_, _, _)
LastIn(name, atoms, i) ==
    IF i = 0 THEN 0
    ELSE IF name[i] \in atoms THEN i ELSE LastIn(name, atoms, i - 1)

\* name.split("_")[-1]
LastUnderscoreSegment(name) ==
    LET i == LastIn(name, UnderscoreAtoms, Len(name))
    IN  IF i = 0 THEN name
        ELSE UnderscoreTail(name[i]) \o SubSeq(name, i + 1, Len(name))

\* Path(name).stem
Stem(name) ==
    IF Len(name) > 1 /\ name[Len(name)] \in GDALFormatExtensions
    THEN SubSeq(name, 1, Len(name) - 1)
    ELSE name

\* str.split(sep)
RECURSIVE Split(_, _)
Split(str, sep) ==
    LET i == LastIn(str, {sep}, Len(str))
    IN  IF i = 0 THEN <<str>>
        ELSE Append(Split(SubSeq(str, 1, i - 1), sep),
                    SubSeq(str, i + 1, Len(str)))

IsDigits(str) == \A i \in DOMAIN str : \E k \in DOMAIN Digit : Digit[k] = str[i]

\* int(str) of a string of digits
RECURSIVE int(_)
int(str) ==
    IF str = <<>> THEN 0
    ELSE 10 * int(SubSeq(str, 1, Len(str) - 1))
             + (CHOOSE k \in 0..9 : Digit[k + 1] = str[Len(str)])

\* datetime.strptime(str, "%Y%m%d"): four digits of year, then a month and
\* a day of one or two digits each, the month taking two when it can
strptime(str) ==
    IF ~ IsDigits(str) \/ Len(str) < 6 \/ Len(str) > 8 THEN ValueError
    ELSE LET rest == SubSeq(str, 5, Len(str))
             fits(mlen) ==
                 LET month == SubSeq(rest, 1, mlen)
                     day == SubSeq(rest, mlen + 1, Len(rest))
                 IN  /\ Len(day) \in 1..2
                     /\ int(month) \in 1..12
                     /\ (mlen = 1 => month[1] # "0")
                     /\ int(day) \in 1..31
                     /\ (Len(day) = 1 => day[1] # "0")
             mlen == IF fits(2) THEN 2 ELSE IF fits(1) THEN 1 ELSE 0
         IN  IF mlen = 0 THEN ValueError
             ELSE date(int(SubSeq(str, 1, 4)), int(SubSeq(rest, 1, mlen)),
                       int(SubSeq(rest, mlen + 1, Len(rest))))

\* file_name_to_start_end_dates taking the first two of any number of tokens
file_name_to_start_end_dates_unchecked(path) ==
    LET date_strs == Split(Stem(LastUnderscoreSegment(Name(path))), "-")
        start_date == strptime(date_strs[1])
        end_date == strptime(date_strs[Len(date_strs)])
    IN  IF ValueError \in {start_date, end_date}
        THEN [err |-> "ValueError", value |-> <<>>]
        ELSE [err |-> "none", value |-> <<start_date, end_date>>]

file_name_to_start_end_dates(path) ==
    LET date_strs == Split(Stem(LastUnderscoreSegment(Name(path))), "-")
    IN  IF Len(date_strs) # 2 THEN [err |-> "ValueError", value |-> <<>>]
        ELSE LET start_date == strptime(date_strs[1])
                 end_date == strptime(date_strs[2])
             IN  IF ValueError \in {start_date, end_date}
                 THEN [err |-> "ValueError", value |-> <<>>]
                 ELSE [err |-> "none", value |-> <<start_date, end_date>>]

\* "-".join(tokens)
RECURSIVE JoinTokens(_)
JoinTokens(tokens) ==
    IF tokens = <<>> THEN <<>>
    ELSE IF Len(tokens) = 1 THEN tokens[1]
    ELSE JoinTokens(SubSeq(tokens, 1, Len(tokens) - 1))
             \o <<"-">> \o tokens[Len(tokens)]

\* File names: a folder, a head, and after the last underscore up to
\* MaxTokens tokens joined by hyphens
FileNames ==
    {Join(dir, head \o sep \o JoinTokens(tokens) \o ext) :
        dir \in {<<"some", "/", "folder">>, <<"raw", "/", "_day", "_1km">>},
        head \in {<<"pr", "_cpm_uk_2.2km_", "06", "_day">>,
                  <<"tasmax", "_hadukgrid_uk", "_1km", "_day">>,
                  <<"pr", "_day", "_a", "_day">>,
                  <<"pr", "_1km", "_a", "_1km">>,
                  <<"pr">>},
        sep \in {<<"_">>, <<>>},
        tokens \in UNION {[1..k ->
                             {strftime(date(2076, 12, 1)),
                              strftime(date(2077, 11, 30)),
                              <<"2", "0", "7", "7", "0", "2", "3", "0">>,
                              <<"1", "9", "8", "0">>}] :
                          k \in 0..MaxTokens},
        ext \in {<<".nc">>, <<".tif">>, <<>>}}

InitNames ==
    /\ file_path \in FileNames
    /\ fs_dirs = {}
    /\ last = NoCall
    /\ files_manager = NoFiles
    /\ now = 0
    /\ dataset = NoDataset
    /\ IdleResample
    /\ config = NoConfig

\* file_name_to_start_end_dates(file_path)
FileNameToStartEndDates ==
    /\ file_path # NonePath
    /\ LET r == file_name_to_start_end_dates(file_path)
       IN  last' = [op |-> "file_name_to_start_end_dates", err |-> r.err,
                    value |-> r.value]
    /\ UNCHANGED <<fs_dirs, files_manager, now, file_path, dataset,
                   config>>
    /\ UNCHANGED resample_vars

\* reproject_standard_calendar_file_name(file_path)
ReprojectStandardCalendarFileName ==
    /\ file_path # NonePath
    /\ last' = [op |-> "reproject_standard_calendar_file_name",
                err |-> "none",
                value |-> reproject_standard_calendar_file_name(file_path)]
    /\ UNCHANGED <<fs_dirs, files_manager, now, file_path, dataset,
                   config>>
    /\ UNCHANGED resample_vars

\* reproject_2_2km_file_name(file_path)
Reproject22kmFileName ==
    /\ file_path # NonePath
    /\ last' = [op |-> "reproject_2_2km_file_name", err |-> "none",
                value |-> reproject_2_2km_file_name(file_path)]
    /\ UNCHANGED <<fs_dirs, files_manager, now, file_path, dataset,
                   config>>
    /\ UNCHANGED resample_vars

NextNames ==
    \/ FileNameToStartEndDates
    \/ ReprojectStandardCalendarFileName
    \/ Reproject22kmFileName

SpecNames == InitNames /\ [][NextNames]_vars

\* The two YYYYMMDD tokens of a name that ends, after its last underscore,
\* with <8 digits>-<8 digits> and an optional extension; <<>> otherwise
TwoDateTokens(name) ==
    LET ext == IF name[Len(name)] \in {".nc", ".tif"} THEN 1 ELSE 0
        hi == Len(name) - ext
    IN  IF /\ hi >= 18
           /\ name[hi - 17] \in {"_", "_cpm_uk_2.2km_"}
           /\ name[hi - 8] = "-"
           /\ IsDigits(SubSeq(name, hi - 16, hi - 9))
           /\ IsDigits(SubSeq(name, hi - 7, hi))
        THEN <<SubSeq(name, hi - 16, hi - 9), SubSeq(name, hi - 7, hi)>>
        ELSE <<>>

\* The date YYYYMMDD stands for, when there is such a date
TokenDate(token) ==
    [calendar |-> "standard", year |-> int(SubSeq(token, 1, 4)),
     month |-> int(SubSeq(token, 5, 6)), day |-> int(SubSeq(token, 7, 8))]
IsDate(d) == d.month \in 1..12 /\ d.day \in 1..DaysInMonth(d.year, d.month)

\* The hyphens of the last underscore-delimited segment of a name
SegmentHyphens(name) ==
    {i \in (LastIn(name, UnderscoreAtoms, Len(name)) + 1)..Len(name) :
        name[i] = "-"}

\* C14: file_name_to_start_end_dates returns the dates of the two
\* hyphen-joined YYYYMMDD tokens that end the name after its last
\* underscore, and raises ValueError whenever that segment does not split
\* into exactly two tokens.
C14_StartEndDates ==
    last.op = "file_name_to_start_end_dates"
        => LET name == Name(file_path)
               tokens == TwoDateTokens(name)
           IN  /\ Cardinality(SegmentHyphens(name)) # 1
                      => last.err = "ValueError"
               /\ (/\ tokens # <<>>
                   /\ IsDate(TokenDate(tokens[1]))
                   /\ IsDate(TokenDate(tokens[2])))
                      => /\ last.err = "none"
                         /\ last.value = <<TokenDate(tokens[1]),
                                           TokenDate(tokens[2])>>

C14_Witness ==
    /\ last.op = "file_name_to_start_end_dates"
    /\ last.err = "none"
    /\ last.value = <<date(2076, 12, 1), date(2077, 11, 30)>>
    /\ file_path[Len(file_path)] = ".tif"

\* value is path with the last atom `old` of its name turned into `new`
\* and nothing else changed
OnlySuffixChanged(path, value, old, new) ==
    LET name == Name(path)
        k == LastIn(name, {old}, Len(name))
    IN  /\ Parent(value) = Parent(path)
        /\ Name(value) = IF k = 0 THEN name ELSE [name EXCEPT ![k] = new]

\* C15: the output file name keeps the parent directory and the extension
\* of the source file name and changes only the suffix (_day into
\* _day_std_year for CPM, _1km into _2_2km for HADs); any other occurrence
\* of those substrings stays as it is.
C15_OnlySuffixChanges ==
    /\ last.op = "reproject_standard_calendar_file_name"
          => OnlySuffixChanged(file_path, last.value, "_day",
                               "_day_std_year")
    /\ last.op = "reproject_2_2km_file_name"
          => OnlySuffixChanged(file_path, last.value, "_1km", "_2_2km")

-----------------------------------------------------------------------------
(* Calendar conversion: convert_xr_calendar and interpolate_xr_ts_nans     *)
(*                                                                         *)
(* A dataset is a record of its time axis (a sequence of dates), the       *)
(* values of its data variable along time (NaN or <<number>>) and its CRS. *)

NaN == <<>>
NoCRS == "none"
BRITISH_NATIONAL_GRID_EPSG == "EPSG:27700"
ROTATED_POLE == "rotated_latitude_longitude"

MONTH_DAY_XARRAY_LEAP_YEAR_DROP ==
    {<<1, 31>>, <<4, 1>>, <<6, 1>>, <<8, 1>>, <<9, 31>>, <<12, 1>>}
MONTH_DAY_XARRAY_NO_LEAP_YEAR_DROP ==
    {<<2, 6>>, <<4, 20>>, <<7, 2>>, <<9, 13>>, <<11, 25>>}

\* Day numbers count from the first day of the year of the first source file
Epoch == DateRanges[1][1].year

DaysInYear(year) == IF IsLeap(year) THEN 366 ELSE 365

RECURSIVE DaysBeforeYear(_)
DaysBeforeYear(year) ==
    IF year <= Epoch THEN 0
    ELSE DaysBeforeYear(year - 1) + DaysInYear(year - 1)

DaysBeforeMonth(year, month) ==
    <<0, 31, 59, 90, 120, 151, 181, 212, 243, 273, 304, 334>>[month]
        + (IF month > 2 /\ IsLeap(year) THEN 1 ELSE 0)

\* time.dt.dayofyear in the calendar of the date
DayOfYear(d) ==
    IF d.calendar = "360_day" THEN (d.month - 1) * 30 + d.day
    ELSE DaysBeforeMonth(d.year, d.month) + d.day

\* The number of the day in the calendar of the date
Ordinal(d) ==
    IF d.calendar = "360_day"
    THEN (d.year - Epoch) * 360 + DayOfYear(d) - 1
    ELSE DaysBeforeYear(d.year) + DayOfYear(d) - 1

\* The standard-calendar date of a day of a year
DateOfDayOfMonth(year, month, doy) ==
    date(year, month, doy - DaysBeforeMonth(year, month))

DateOfDayOfYear(year, doy) ==
    DateOfDayOfMonth(year,
        CHOOSE m \in 1..12 :
            /\ DaysBeforeMonth(year, m) < doy
            /\ doy <= DaysBeforeMonth(year, m) + DaysInMonth(year, m),
        doy)

\* The standard-calendar date of a day number
DateOfOrdinal(n) ==
    DateOfDayOfYear(
        CHOOSE y \in Epoch..(Epoch + n \div 365) :
            DaysBeforeYear(y) <= n /\ n < DaysBeforeYear(y + 1),
        n - DaysBeforeYear(
                CHOOSE y \in Epoch..(Epoch + n \div 365) :
                    DaysBeforeYear(y) <= n /\ n < DaysBeforeYear(y + 1))
          + 1)

\* numpy.round(num / den): halves go to the even neighbour
RoundHalfEven(num, den) ==
    LET q == num \div den
        r == num % den
    IN  IF 2 * r < den THEN q
        ELSE IF 2 * r > den THEN q + 1
        ELSE IF q % 2 = 0 THEN q ELSE q + 1

\* align_on="year": the day of the standard year at the same position in
\* the year as the 360-day date, as a day number
interpolate_day_of_year(d) ==
    DaysBeforeYear(d.year)
        + RoundHalfEven(DaysInYear(d.year) * DayOfYear(d), 360) - 1

\* infer_freq(time) reading the frequency off the first step alone
infer_freq_of_first_step(time) ==
    IF Len(time) < 2 THEN 1 ELSE Ordinal(time[2]) - Ordinal(time[1])

\* infer_freq(time) in days; 0 when no frequency can be inferred (fewer
\* than 3 timestamps, or steps of different lengths)
infer_freq(time) ==
    IF Len(time) < 3 THEN 0
    ELSE LET step == Ordinal(time[2]) - Ordinal(time[1])
         IN  IF \A i \in 2..Len(time) :
                    Ordinal(time[i]) - Ordinal(time[i - 1]) = step
             THEN step ELSE 0

\* The same year, month and day in the standard calendar, or the closest
\* day before it that exists
convert_time_or_go_back(d) ==
    IF date(d.year, d.month, d.day) # ValueError
    THEN date(d.year, d.month, d.day)
    ELSE IF date(d.year, d.month, d.day - 1) # ValueError
    THEN date(d.year, d.month, d.day - 1)
    ELSE date(d.year, d.month, d.day - 2)

\* date_range_like(time, "standard"): the day numbers of the target axis
date_range_like(time) ==
    LET freq == infer_freq(time)
        source_end == time[Len(time)]
        start == convert_time_or_go_back(time[1])
        back == convert_time_or_go_back(source_end)
        end == IF source_end.day = 30
               THEN date(back.year, back.month,
                         DaysInMonth(back.year, back.month))
               ELSE back
    IN  [k \in 1..((Ordinal(end) - Ordinal(start)) \div freq + 1) |->
            Ordinal(start) + (k - 1) * freq]

\* The values of the sources lo..hi by the day number they convert to; of
\* two sources on one day the first stays
RECURSIVE by_converted_day(_, _, _)
by_converted_day(ds, lo, hi) ==
    IF lo = hi THEN interpolate_day_of_year(ds.time[lo]) :> ds.values[lo]
    ELSE by_converted_day(ds, lo, (lo + hi) \div 2)
             @@ by_converted_day(ds, (lo + hi) \div 2 + 1, hi)

\* out.reindex(time=target, fill_value=nan), out being the values by
\* converted day number
reindex(ds, out, target, keeps_crs) ==
    [err |-> "none",
     calendar |-> "standard",
     time |-> [k \in DOMAIN target |-> DateOfOrdinal(target[k])] @@ <<>>,
     values |-> [k \in DOMAIN target |->
                    IF target[k] \in DOMAIN out THEN out[target[k]]
                    ELSE NaN] @@ <<>>,
     crs |-> IF keeps_crs THEN ds.crs ELSE NoCRS]

\* xarray's convert_calendar(ds, "standard", align_on="year",
\* missing=nan): the sources move to their new days and are reindexed on
\* the target axis; keeps_crs tells whether it carries the CRS over
convert_calendar(ds, keeps_crs) ==
    IF infer_freq(ds.time) = 0 THEN [err |-> "ValueError"]
    ELSE reindex(ds, by_converted_day(ds, 1, Len(ds.time)),
                 date_range_like(ds.time) @@ <<>>, keeps_crs)

\* The value a linear interpolation over the index gives position i, from
\* the valid positions around it or, at either end, from the two nearest
LinearAt(values, valid, i) ==
    LET below == {j \in valid : j < i}
        above == {j \in valid : j > i}
        top(S) == CHOOSE j \in S : \A k \in S : k <= j
        bottom(S) == CHOOSE j \in S : \A k \in S : j <= k
        a == IF below = {} THEN bottom(above)
             ELSE IF above = {} THEN top(below \ {top(below)})
             ELSE top(below)
        b == IF below = {} THEN bottom(above \ {bottom(above)})
             ELSE IF above = {} THEN top(below)
             ELSE bottom(above)
    IN  values[a][1]
            + ((values[b][1] - values[a][1]) * (i - a)) \div (b - a)

\* The gaps of `values` that are filled, valid being the positions that
\* hold a value: every one of them, whatever the limit
xr_interpolate_na_unlimited(values, valid, limit) ==
    IF Cardinality(valid) < 2 THEN values
    ELSE [i \in DOMAIN values |->
             IF values[i] # NaN THEN values[i]
             ELSE <<LinearAt(values, valid, i)>>] @@ <<>>

\* interpolate_na(dim="time", method="linear", limit=limit,
\* fill_value="extrapolate"), valid being the positions that hold a value:
\* a gap is filled unless it ends a run of more than `limit` consecutive
\* gaps
xr_interpolate_na(values, valid, limit) ==
    IF Cardinality(valid) < 2 THEN values
    ELSE [i \in DOMAIN values |->
             IF values[i] # NaN THEN values[i]
             ELSE IF Cardinality({j \in (i - limit)..i :
                                     j \in DOMAIN values /\ values[j] = NaN})
                         <= limit
             THEN <<LinearAt(values, valid, i)>>
             ELSE NaN] @@ <<>>

\* ds.rio.write_crs(input_crs): without any CRS to write it raises
write_crs(ds, input_crs) ==
    IF input_crs = NoCRS /\ ds.crs = NoCRS THEN [err |-> "MissingCRS"]
    ELSE [ds EXCEPT !.crs = IF input_crs # NoCRS THEN input_crs ELSE @]

interpolate_xr_ts_nans(xr_ts, original_xr_ts, keep_crs, limit) ==
    IF keep_crs /\ original_xr_ts.crs # NoCRS
    THEN write_crs([xr_ts EXCEPT !.values =
                       xr_interpolate_na(xr_ts.values,
                           {i \in DOMAIN xr_ts.values :
                               xr_ts.values[i] # NaN}, limit)],
                   xr_ts.crs)
    ELSE [xr_ts EXCEPT !.values =
             xr_interpolate_na(xr_ts.values,
                 {i \in DOMAIN xr_ts.values : xr_ts.values[i] # NaN},
                 limit)]

\* convert_xr_calendar from the convert_calendar call on
convert_xr_calendar_converted(calendar_converted_ts, xr_time_series, interpolate, keep_crs) ==
    IF calendar_converted_ts.err # "none" THEN calendar_converted_ts
    ELSE IF ~ interpolate
    THEN IF keep_crs /\ xr_time_series.crs # NoCRS
         THEN write_crs(calendar_converted_ts, xr_time_series.crs)
         ELSE calendar_converted_ts
    ELSE interpolate_xr_ts_nans(calendar_converted_ts, xr_time_series,
                                keep_crs, 1)

\* convert_xr_calendar(xr_time_series, interpolate_na=..., keep_crs=...),
\* limit at its default of 1
convert_xr_calendar(xr_time_series, interpolate, keep_crs, keeps_crs) ==
    convert_xr_calendar_converted(
        convert_calendar(xr_time_series, keeps_crs),
        xr_time_series, interpolate, keep_crs)

\* cpm_xarray_to_standard_calendar from the convert_xr_calendar call on
cpm_xarray_to_standard_calendar_converted(cpm_to_std_calendar, cpm_xr_time_series) ==
    IF cpm_to_std_calendar.err # "none" THEN cpm_to_std_calendar
    ELSE IF cpm_xr_time_series.crs # cpm_to_std_calendar.crs
    THEN [err |-> "AssertionError"]
    ELSE cpm_to_std_calendar

cpm_xarray_to_standard_calendar(cpm_xr_time_series, keeps_crs) ==
    cpm_xarray_to_standard_calendar_converted(
        convert_xr_calendar(cpm_xr_time_series, TRUE, TRUE, keeps_crs),
        cpm_xr_time_series)

\* gdal_warp_wrapper(input_path, output_path, output_crs): the dataset in
\* the file it writes; warps tells what osgeo.gdal.Warp made of the CRS and
\* of the time steps
gdal_warp_wrapper(input, output_path, output_crs, dirs, warps) ==
    IF output_path \in dirs THEN [err |-> "FileExistsError"]
    ELSE [input EXCEPT
             !.crs = IF warps.crs THEN output_crs ELSE input.crs,
             !.time = IF warps.time THEN input.time
                      ELSE SubSeq(input.time, 1, Len(input.time) - 1),
             !.values = IF warps.time THEN input.values
                        ELSE SubSeq(input.values, 1, Len(input.values) - 1)]

\* cpm_reproject_with_standard_calendar from the gdal_warp_wrapper call
\* on, without its assertions on the warped dataset
cpm_reproject_with_standard_calendar_unasserted(f, expanded_calendar, warped_to_22700, t) ==
    IF warped_to_22700.err # "none"
    THEN [err |-> warped_to_22700.err,
          files |-> {intermediate_nc_path(f, t), simplified_nc_path(f, t)}]
    ELSE [err |-> "none",
          files |-> {intermediate_nc_path(f, t), simplified_nc_path(f, t),
                     intermediate_warp_path(f, t), final_nc_path(f, t)},
          value |-> warped_to_22700]

\* cpm_reproject_with_standard_calendar from the gdal_warp_wrapper call
\* on: stages 0 and 1 are written, stage 2 is the warped file, stage 3 is
\* written before the last assertion
cpm_reproject_with_standard_calendar_warped(f, expanded_calendar, warped_to_22700, t) ==
    IF warped_to_22700.err # "none"
    THEN [err |-> warped_to_22700.err,
          files |-> {intermediate_nc_path(f, t), simplified_nc_path(f, t)}]
    ELSE IF \/ warped_to_22700.crs # BRITISH_NATIONAL_GRID_EPSG
            \/ Len(warped_to_22700.time) # Len(expanded_calendar.time)
    THEN [err |-> "AssertionError",
          files |-> {intermediate_nc_path(f, t), simplified_nc_path(f, t),
                     intermediate_warp_path(f, t)}]
    ELSE IF warped_to_22700.time # expanded_calendar.time
    THEN [err |-> "AssertionError",
          files |-> {intermediate_nc_path(f, t), simplified_nc_path(f, t),
                     intermediate_warp_path(f, t), final_nc_path(f, t)}]
    ELSE [err |-> "none",
          files |-> {intermediate_nc_path(f, t), simplified_nc_path(f, t),
                     intermediate_warp_path(f, t), final_nc_path(f, t)},
          value |-> warped_to_22700]

\* cpm_reproject_with_standard_calendar from the calendar conversion on:
\* nothing is written before the conversion has succeeded
cpm_reproject_with_standard_calendar_expanded(f, expanded_calendar, dirs, t, library) ==
    IF f.err # "none" THEN [err |-> f.err, files |-> {}]
    ELSE IF expanded_calendar.err # "none"
    THEN [err |-> expanded_calendar.err, files |-> {}]
    ELSE cpm_reproject_with_standard_calendar_warped(f, expanded_calendar,
             gdal_warp_wrapper(expanded_calendar,
                               intermediate_warp_path(f, t),
                               BRITISH_NATIONAL_GRID_EPSG, dirs, library),
             t)

\* cpm_reproject_with_standard_calendar on a dataset: the exception it ends
\* with, the files it has written and the dataset it returns
cpm_reproject_with_standard_calendar_of_dataset(cpm_xr_time_series, variable_name, output_path, dirs, t, library) ==
    cpm_reproject_with_standard_calendar_expanded(
        IntermediateCPMFilesManager(variable_name, output_path,
            CPM_LOCAL_INTERMEDIATE_PATH, cpm_xr_time_series.time[1],
            cpm_xr_time_series.time[Len(cpm_xr_time_series.time)],
            "", FALSE),
        cpm_xarray_to_standard_calendar(cpm_xr_time_series,
                                        library.keeps_crs),
        dirs, t, library)

-----
(* A CPM Converter and the dataset of its first source file                *)

MaxSamples == 6

\* The 360-day series of the days start + offsets[k], with no value on
\* the days of `missing`
Series(start, offsets, missing, crs) ==
    [calendar |-> "360_day",
     time |-> [k \in DOMAIN offsets |->
                  Datetime360Day(
                      Epoch + ((Ordinal(start) + offsets[k]) \div 360),
                      (((Ordinal(start) + offsets[k]) % 360) \div 30) + 1,
                      ((Ordinal(start) + offsets[k]) % 30) + 1)],
     values |-> [k \in DOMAIN offsets |->
                    IF offsets[k] \in missing THEN NaN
                    ELSE <<60 * (offsets[k] + 1)>>],
     crs |-> crs]

\* Short series: at most MaxSamples timestamps from 1981-02-03 on, in
\* increasing order, at most one of them without a value, and at least
\* three with one when there are that many
ShortSeries ==
    {ds \in {Series(Datetime360Day(1981, 2, 3),
                    [k \in 1..(Cardinality(offsets) + 1) |->
                        CHOOSE x \in {0} \cup offsets :
                            Cardinality({y \in {0} \cup offsets : y < x})
                                = k - 1],
                    missing, ROTATED_POLE) :
                offsets \in SUBSET (1..(MaxSamples - 1)),
                missing \in {{}} \cup {{k} : k \in 1..(MaxSamples - 1)}} :
        Cardinality({i \in DOMAIN ds.values : ds.values[i] # NaN})
            >= Min(3, Len(ds.time))}

\* The dataset is a short series, with or without a CRS, or the 360 daily
\* values of the first source file
InitCalendar ==
    /\ dataset \in ShortSeries
                        \cup {[ds EXCEPT !.crs = NoCRS] :
                                 ds \in {s \in ShortSeries :
                                            \A i \in DOMAIN s.values :
                                               s.values[i] # NaN}}
                        \cup {Series(DateRanges[1][1], [k \in 1..360 |-> k - 1],
                                      {}, ROTATED_POLE)}
    /\ configs = <<Resampler("CPM",
                             CPMDir(RAW, VariableOrder[1], RunOrder[1]),
                             Join(OUT, <<"direct">>), VariableOrder[1], 0,
                             NoneInt, InputDirs)>>
    /\ file_path = SourceFile(CPMDir(RAW, VariableOrder[1], RunOrder[1]), 1)
    /\ fs_dirs = InputDirs \cup Ancestors(Join(OUT, <<"direct">>))
    /\ fs_files = {}
    /\ corrupt = {}
    /\ mgr = NoManager
    /\ mgr_error = "none"
    /\ log = {}
    /\ last = NoCall
    /\ files_manager = NoFiles
    /\ now = 0
    /\ IdleBatch
    /\ config = NoConfig

\* convert_xr_calendar(dataset, interpolate_na=..., keep_crs=...)
ConvertXrCalendar ==
    /\ dataset # NoDataset
    /\ \E interpolate \in BOOLEAN, keep_crs \in BOOLEAN,
          keeps_crs \in BOOLEAN :
          LET r == convert_xr_calendar(dataset, interpolate, keep_crs,
                                       keeps_crs)
          IN  last' = [op |-> "convert_xr_calendar", err |-> r.err,
                       interpolate_na |-> interpolate,
                       keep_crs |-> keep_crs, keeps_crs |-> keeps_crs,
                       value |-> r]
    /\ UNCHANGED <<fs_dirs, files_manager, now, file_path, dataset,
                   config>>
    /\ UNCHANGED resample_vars

\* to_reprojection once cpm_reproject_with_standard_calendar has ended
\* as r; staged are the stage files of the source file's own dates
ToReprojectionOf(c, r, staged, library) ==
    \E write_results \in BOOLEAN :
        LET t == to_reprojection(c, 0, NonePath, TRUE, write_results, WORK,
                                 r.err # "none", FALSE)
        IN  /\ configs' = <<t.c>>
            /\ fs_files' = fs_files \cup r.files \cup (t.files \ staged)
            /\ fs_dirs' = fs_dirs \cup
                   UNION {Ancestors(Parent(p)) : p \in r.files}
            /\ last' = [op |-> "to_reprojection", err |-> t.err,
                        conversion_err |-> r.err, library |-> library,
                        write_results |-> write_results,
                        result |-> IF r.err = "none" THEN r.value
                                   ELSE NoDataset,
                        value |-> t.value]

\* resampler.to_reprojection(0, output_path=WORK) on the Converter whose
\* first source file holds the dataset
DatasetToReprojection ==
    /\ dataset # NoDataset
    /\ \E library \in [keeps_crs : BOOLEAN, crs : BOOLEAN, time : BOOLEAN] :
          ToReprojectionOf(configs[1],
              cpm_reproject_with_standard_calendar_of_dataset(dataset,
                  cpm_value(configs[1].variable_name), WORK, fs_dirs, now,
                  library),
              cpm_reproject_with_standard_calendar(
                  get_source_path(configs[1], 0),
                  cpm_value(configs[1].variable_name), WORK),
              library)
    /\ UNCHANGED <<corrupt, mgr, mgr_error, log, pc, multiprocess, pool_cpus,
                   kw, pos, written_by>>
    /\ UNCHANGED <<files_manager, now, file_path, dataset,
                   config>>

NextCalendar == ConvertXrCalendar \/ DatasetToReprojection

SpecCalendar == InitCalendar /\ [][NextCalendar]_vars

\* The steps between the timestamps of the dataset differ, or there are
\* fewer than three timestamps: no frequency can be read off the time axis
NoFrequency ==
    \/ Len(dataset.time) < 3
    \/ \E i \in 2..(Len(dataset.time) - 1) :
          Ordinal(dataset.time[i + 1]) - Ordinal(dataset.time[i])
              # Ordinal(dataset.time[2]) - Ordinal(dataset.time[1])

\* The source file of the dataset has no entry in the result paths
NoResultEntry == file_path \notin ItemKeys(configs[1].result_paths)

C17_CrsPreserved ==
    (/\ last.op = "convert_xr_calendar"
     /\ last.keep_crs
     /\ dataset.crs # NoCRS
     /\ ~ NoFrequency)
        => /\ last.err = "none"
           /\ last.value.crs = dataset.crs

\* A gap of the converted values at position i
Gap(values, i) == i \in DOMAIN values /\ values[i] = NaN

\* converted: the values after the calendar conversion; introduced: the
\* same for a series with a value at every timestamp, whose gaps are the
\* ones the conversion brings in; out: the values returned.  Every gap
\* brought in next to a value is filled, every gap left lies in a run of
\* two or more, and every value converted is returned as it is
FilledNearValid(converted, introduced, out) ==
    /\ \A i \in DOMAIN converted :
          (/\ Gap(introduced, i)
           /\ \/ (i - 1 \in DOMAIN converted /\ ~ Gap(converted, i - 1))
              \/ (i + 1 \in DOMAIN converted /\ ~ Gap(converted, i + 1)))
              => ~ Gap(out, i)
    /\ \A i \in DOMAIN converted :
          Gap(out, i) => Gap(converted, i - 1) \/ Gap(converted, i + 1)
    /\ \A i \in DOMAIN converted :
          ~ Gap(converted, i) => out[i] = converted[i]

\* The same with the direction of the limit: a series converted to fewer
\* than two values is returned as it is; in any other a gap is filled
\* exactly when the step before it holds a value or it is the first step
FilledAfterValid(converted, introduced, out) ==
    IF Cardinality({i \in DOMAIN converted : ~ Gap(converted, i)}) < 2
    THEN out = converted
    ELSE /\ DOMAIN out = DOMAIN converted
         /\ \A i \in DOMAIN converted :
               Gap(converted, i) =>
                   (Gap(out, i) <=> Gap(converted, i - 1))
         /\ \A i \in DOMAIN converted :
               Gap(out, i) => Gap(converted, i - 1) \/ Gap(converted, i + 1)
         /\ \A i \in DOMAIN converted :
               ~ Gap(converted, i) => out[i] = converted[i]

\* The dataset with a value at every timestamp
Complete(ds) == [ds EXCEPT !.values = [i \in DOMAIN ds.values |-> <<0>>]]

LeftBehindFilled(converted, introduced, out) ==
    \E i \in DOMAIN out :
        /\ Gap(introduced, i) /\ Gap(out, i)
        /\ Gap(converted, i - 1) /\ ~ Gap(out, i - 1)
        /\ ~ Gap(converted, i + 1)

FullYearSource ==
    /\ Len(dataset.time) = 360
    /\ dataset.time[1] = Datetime360Day(1980, 12, 1)
    /\ dataset.time[360] = Datetime360Day(1981, 11, 30)

\* The number of time steps of the calendar-expanded series of the dataset
ExpandedLength == Len(convert_calendar(dataset, TRUE).time)

\* C19: the full CPM conversion of the 360-step source from 1980-12-01 to
\* 1981-11-30 returns 365 time steps, the first of them 1980-12-01 with a
\* value, in EPSG:27700; no conversion returns a result whose CRS is not the
\* target or whose time axis is not as long as the calendar-expanded series
C19_FullConversion ==
    (/\ last.op = "to_reprojection"
     /\ last.conversion_err = "none")
        => /\ last.result.crs = "EPSG:27700"
           /\ Len(last.result.time) = ExpandedLength
           /\ FullYearSource =>
                 /\ Len(last.result.time) = 365
                 /\ last.result.time[1] = date(1980, 12, 1)
                 /\ last.result.values[1] # NaN

C19_Witness ==
    /\ last.op = "to_reprojection"
    /\ last.conversion_err = "none"
    /\ last.err = "none"
    /\ FullYearSource
    /\ Len(last.result.time) = 365

\* The set dropped from a standard year
DropSet(year) == IF IsLeap(year) THEN MONTH_DAY_XARRAY_LEAP_YEAR_DROP
                 ELSE MONTH_DAY_XARRAY_NO_LEAP_YEAR_DROP

\* C20: the (month, day) tuples dropped from a standard year are one set of
\* 6 for every leap year and another set of 5 for every other year, and
\* every tuple is a date of a standard year of that kind
C20_DropSets ==
    dataset # NoDataset =>
        \A i \in DOMAIN dataset.time :
            /\ Cardinality(DropSet(dataset.time[i].year))
                  = (IF IsLeap(dataset.time[i].year) THEN 6 ELSE 5)
            /\ MONTH_DAY_XARRAY_LEAP_YEAR_DROP
                  # MONTH_DAY_XARRAY_NO_LEAP_YEAR_DROP
            /\ \A md \in DropSet(dataset.time[i].year) :
                  date(dataset.time[i].year, md[1], md[2]) # ValueError

-----------------------------------------------------------------------------
(* The Coordinate Interpolator and the HADs resampling.  A HADs dataset is *)
(* a record of its time axis, its coordinates (a function from coordinate  *)
(* names to their values) and its CRS; a grid that is None is <<>>.        *)

MaxGrid == 3

HADS_RAW_X_COLUMN_NAME == "projection_x_coordinate"
HADS_RAW_Y_COLUMN_NAME == "projection_y_coordinate"
HADS_DROP_VARS_AFTER_PROJECTION == {"longitude", "latitude"}

\* interpolate_coords(xr_time_series, variable_name, ...): the exception it
\* ends with and the names its message lists, or the dataset it returns
interpolate_coords(xr_time_series, x_grid, y_grid, x_coord_column_name, y_coord_column_name, reference_coords, reference_coord_x_column_name, reference_coord_y_column_name, use_reference_grid) ==
    IF /\ use_reference_grid \/ x_grid = <<>> \/ y_grid = <<>>
       /\ \/ {reference_coord_x_column_name, reference_coord_y_column_name}
                 \ DOMAIN reference_coords.coords # {}
          \/ {x_coord_column_name, y_coord_column_name}
                 \ DOMAIN xr_time_series.coords # {}
    THEN [err |-> "ValueError",
          message |-> {reference_coord_x_column_name,
                       reference_coord_y_column_name,
                       x_coord_column_name, y_coord_column_name}]
    ELSE IF {x_coord_column_name, y_coord_column_name}
               \ DOMAIN xr_time_series.coords # {}
    THEN [err |-> "ValueError",
          message |-> {x_coord_column_name, y_coord_column_name, "time"}
                          \cup DOMAIN xr_time_series.coords]
    ELSE [err |-> "none",
          calendar |-> xr_time_series.calendar,
          time |-> xr_time_series.time,
          coords |->
              [n \in DOMAIN xr_time_series.coords |->
                  IF n = x_coord_column_name
                  THEN IF x_grid = <<>>
                       THEN reference_coords.coords[
                                reference_coord_x_column_name]
                       ELSE x_grid
                  ELSE IF n = y_coord_column_name
                  THEN IF y_grid = <<>>
                       THEN reference_coords.coords[
                                reference_coord_y_column_name]
                       ELSE y_grid
                  ELSE xr_time_series.coords[n]],
          crs |-> IF use_reference_grid \/ x_grid = <<>> \/ y_grid = <<>>
                  THEN reference_coords.crs
                  ELSE xr_time_series.crs]

\* hads_resample_and_reproject from the interpolate_coords call on
hads_resample_and_reproject_interpolated(interpolated_hads, source_x_coord_column_name, source_y_coord_column_name, final_crs) ==
    IF interpolated_hads.err # "none" THEN interpolated_hads
    ELSE IF HADS_DROP_VARS_AFTER_PROJECTION
               \ DOMAIN interpolated_hads.coords # {}
    THEN [err |-> "ValueError",
          message |-> HADS_DROP_VARS_AFTER_PROJECTION
                          \ DOMAIN interpolated_hads.coords]
    ELSE [interpolated_hads EXCEPT
             !.coords = [n \in {"x", "y"} |->
                            IF n = "x"
                            THEN @[source_x_coord_column_name]
                            ELSE @[source_y_coord_column_name]],
             !.crs = IF final_crs # NoCRS THEN final_crs ELSE @]

\* hads_resample_and_reproject(hads_xr_time_series, variable_name, x_grid,
\* y_grid, ...); default_grid is the dataset of the file at
\* DEFAULT_RELATIVE_GRID_DATA_PATH
hads_resample_and_reproject(hads_xr_time_series, x_grid, y_grid, final_crs, use_reference_grid, default_grid) ==
    hads_resample_and_reproject_interpolated(
        interpolate_coords(hads_xr_time_series, x_grid, y_grid,
            HADS_RAW_X_COLUMN_NAME, HADS_RAW_Y_COLUMN_NAME, default_grid,
            HADS_RAW_X_COLUMN_NAME, HADS_RAW_Y_COLUMN_NAME,
            use_reference_grid),
        HADS_RAW_X_COLUMN_NAME, HADS_RAW_Y_COLUMN_NAME, final_crs)

\* Target grids: None, or MaxGrid coordinate values
Grids == {<<>>, [i \in 1..MaxGrid |-> 2200 * i]}

\* Reference datasets: with or without either coordinate name
ReferenceGrids ==
    [coords : {[n \in names |-> [i \in 1..(MaxGrid - 1) |-> 2000 * i]] :
                  names \in SUBSET {HADS_RAW_X_COLUMN_NAME,
                                    HADS_RAW_Y_COLUMN_NAME}},
     crs : {BRITISH_NATIONAL_GRID_EPSG, ROTATED_POLE}]

\* A HADs file of January 1980 on a 1km grid, with or without each of its
\* coordinates
InitHads ==
    /\ dataset \in
          [calendar : {"standard"},
           time : {[i \in 1..31 |-> date(1980, 1, i)]},
           coords : {[n \in names |-> [i \in 1..(MaxGrid + 1) |-> 1000 * i]] :
                        names \in SUBSET ({HADS_RAW_X_COLUMN_NAME,
                                           HADS_RAW_Y_COLUMN_NAME}
                                  \cup HADS_DROP_VARS_AFTER_PROJECTION)},
           crs : {BRITISH_NATIONAL_GRID_EPSG}]
    /\ fs_dirs = {}
    /\ last = NoCall
    /\ files_manager = NoFiles
    /\ now = 0
    /\ file_path = NonePath
    /\ IdleResample
    /\ config = NoConfig

InterpolateCoords ==
    /\ \E x_grid \in Grids, y_grid \in Grids,
          reference_coords \in ReferenceGrids,
          use_reference_grid \in BOOLEAN :
          last' = [op |-> "interpolate_coords",
                   x_grid |-> x_grid, y_grid |-> y_grid,
                   reference_coords |-> reference_coords,
                   use_reference_grid |-> use_reference_grid,
                   value |-> interpolate_coords(dataset, x_grid, y_grid,
                                 HADS_RAW_X_COLUMN_NAME,
                                 HADS_RAW_Y_COLUMN_NAME, reference_coords,
                                 HADS_RAW_X_COLUMN_NAME,
                                 HADS_RAW_Y_COLUMN_NAME,
                                 use_reference_grid)]
    /\ UNCHANGED <<fs_dirs, files_manager, now, file_path, dataset,
                   config>>
    /\ UNCHANGED resample_vars

HadsResampleAndReproject ==
    /\ \E x_grid \in Grids, y_grid \in Grids,
          default_grid \in ReferenceGrids,
          final_crs \in {BRITISH_NATIONAL_GRID_EPSG, NoCRS},
          use_reference_grid \in BOOLEAN :
          last' = [op |-> "hads_resample_and_reproject",
                   x_grid |-> x_grid, y_grid |-> y_grid,
                   reference_coords |-> default_grid,
                   use_reference_grid |-> use_reference_grid,
                   final_crs |-> final_crs,
                   value |-> hads_resample_and_reproject(dataset, x_grid,
                                 y_grid, final_crs, use_reference_grid,
                                 default_grid)]
    /\ UNCHANGED <<fs_dirs, files_manager, now, file_path, dataset,
                   config>>
    /\ UNCHANGED resample_vars

NextHads == InterpolateCoords \/ HadsResampleAndReproject

SpecHads == InitHads /\ [][NextHads]_vars

\* The coordinate-axis names of the last call that its dataset lacks
MissingNames ==
    ({HADS_RAW_X_COLUMN_NAME, HADS_RAW_Y_COLUMN_NAME}
        \ DOMAIN last.reference_coords.coords)
    \cup ({HADS_RAW_X_COLUMN_NAME, HADS_RAW_Y_COLUMN_NAME}
              \ DOMAIN dataset.coords)

\* C21: every call of interpolate_coords with a coordinate-axis name
\* missing from the source or from the reference dataset ends in a
\* ValueError whose message lists the missing names and no other, and
\* nothing is interpolated
C21_MissingNamesReported ==
    (last.op = "interpolate_coords" /\ MissingNames # {})
        => /\ last.value.err = "ValueError"
           /\ last.value.message = MissingNames

\* The grids the last call resampled to
TargetGrid(n) ==
    IF n = "x"
    THEN IF last.x_grid # <<>> THEN last.x_grid
         ELSE last.reference_coords.coords[HADS_RAW_X_COLUMN_NAME]
    ELSE IF last.y_grid # <<>> THEN last.y_grid
         ELSE last.reference_coords.coords[HADS_RAW_Y_COLUMN_NAME]

\* C23: resampling a HADs dataset of 31 time steps gives an
\* output with the sizes of the reference grid on its two spatial
\* dimensions, the same 31 dates, and the CRS of the reference grid
C23_ResampledLikeReference ==
    (/\ last.op = "hads_resample_and_reproject"
     /\ last.value.err = "none"
     /\ last.x_grid = <<>> /\ last.y_grid = <<>>)
        => /\ \A n \in {"x", "y"} :
                 Len(last.value.coords[n]) = Len(TargetGrid(n))
           /\ Len(last.value.time) = 31
           /\ last.value.time = dataset.time
           /\ last.value.crs = last.reference_coords.crs

\* What the code does give: the sizes of the target grid on the two spatial
\* dimensions and the same 31 dates; the CRS is final_crs when one is
\* given, and otherwise the CRS of the reference grid when that grid was
\* used and the CRS of the source when it was not
HadsResampledToFinalCrs ==
    (/\ last.op = "hads_resample_and_reproject"
     /\ last.value.err = "none")
        => /\ \A n \in {"x", "y"} :
                 Len(last.value.coords[n]) = Len(TargetGrid(n))
           /\ DOMAIN last.value.coords = {"x", "y"}
           /\ Len(last.value.time) = 31
           /\ last.value.time = dataset.time
           /\ last.value.crs =
                 IF last.final_crs # NoCRS THEN last.final_crs
                 ELSE IF \/ last.use_reference_grid
                         \/ last.x_grid = <<>> \/ last.y_grid = <<>>
                 THEN last.reference_coords.crs
                 ELSE dataset.crs

HadsResampledFromRotatedPole ==
    /\ last.op = "hads_resample_and_reproject"
    /\ last.value.err = "none"
    /\ last.x_grid = <<>> /\ last.y_grid = <<>>
    /\ last.final_crs = BRITISH_NATIONAL_GRID_EPSG
    /\ last.reference_coords.crs = ROTATED_POLE
    /\ Len(last.value.coords["x"]) # Len(dataset.coords[HADS_RAW_X_COLUMN_NAME])

-----------------------------------------------------------------------------
(* ClimRecalConfig: the Managers it builds and its cpus.  The instance is  *)
(* built with crop=False, so that no crop Manager is part of it, and with  *)
(* add_local_dated_results_path=False, so that exec_path is output_path.   *)

\* The dataclass fields before __post_init__
ClimRecalConfigFields(variables, runs, convert, clim_types, cpus, hads_input_path, cpm_input_path, cpm_for_coord_alignment) ==
    [variables |-> variables,
     runs |-> runs,
     convert |-> convert,
     crop |-> FALSE,
     clim_types |-> clim_types,
     cpus |-> cpus,
     total_cpus |-> NoneInt,
     hads_input_path |-> hads_input_path,
     cpm_input_path |-> cpm_input_path,
     output_path |-> OUT,
     cpm_for_coord_alignment |-> cpm_for_coord_alignment,
     cpm_manager |-> NoManager,
     hads_manager |-> NoManager]

convert_cpm_path(self) ==
    Join(Join(self.output_path, <<"convert">>), <<"cpm">>)
convert_hads_path(self) ==
    Join(Join(self.output_path, <<"convert">>), <<"hads">>)

\* set_cpm_for_coord_alignment that always takes cpm_input_path
set_cpm_for_coord_alignment_always_default(self) ==
    IF self.cpm_input_path # NonePath
    THEN [self |-> [self EXCEPT
                      !.cpm_for_coord_alignment = self.cpm_input_path],
          err |-> "none",
          log |-> {[level |-> "console",
                    msg |-> "Defaulting to 'self.cpm_input_path'",
                    path |-> self.cpm_input_path]}]
    ELSE [self |-> self, err |-> "ValueError", log |-> {}]

set_cpm_for_coord_alignment(self) ==
    IF self.cpm_for_coord_alignment # NonePath
    THEN [self |-> self, err |-> "none", log |-> {}]
    ELSE IF self.cpm_input_path # NonePath
    THEN [self |-> [self EXCEPT
                      !.cpm_for_coord_alignment = self.cpm_input_path],
          err |-> "none",
          log |-> {[level |-> "console",
                    msg |-> "Defaulting to 'self.cpm_input_path'",
                    path |-> self.cpm_input_path]}]
    ELSE [self |-> self, err |-> "ValueError", log |-> {}]

\* A Manager of ClimRecalConfig: a path that is None is no PathLike and no
\* Iterable, so that check_paths stops at its first assertion
ConfigManager(kind, variables, runs, input_path, output_path, dirs, total) ==
    IF input_path = NonePath
    THEN [m |-> NoManager, err |-> "AssertionError", log |-> {}]
    ELSE ManagerPostInit(
             ManagerFields(kind, variables, runs, PathLike(input_path),
                           PathLike(output_path), TRUE, FALSE, 0, NoneInt,
                           NoneInt),
             dirs, total)

\* The end of ClimRecalConfig.__post_init__: total_cpus and cpus
ClimRecalConfigCpus(self, total) ==
    [self EXCEPT
       !.total_cpus = total,
       !.cpus = IF \/ self.cpus = NoneInt
                   \/ (Given(total) /\ self.cpus >= total)
                THEN (IF ~Given(total) THEN 1 ELSE total - 1)
                ELSE self.cpus]

\* ClimRecalConfig.__post_init__ from the CPM Manager on
ClimRecalConfigPostInitHADs(self, cpm, aligned, dirs, total) ==
    IF cpm.err # "none"
    THEN [self |-> self, err |-> cpm.err, log |-> cpm.log, step |-> "cpm"]
    ELSE IF ~(self.convert /\ "HADs" \in self.clim_types)
    THEN [self |-> ClimRecalConfigCpus(
                       [self EXCEPT !.cpm_manager = cpm.m], total),
          err |-> "none", log |-> cpm.log, step |-> "cpus"]
    ELSE IF aligned.err # "none"
    THEN [self |-> [aligned.self EXCEPT !.cpm_manager = cpm.m],
          err |-> aligned.err, log |-> cpm.log \cup aligned.log,
          step |-> "alignment"]
    ELSE LET hads == ConfigManager("HADs", self.variables, <<RunOrder[1]>>,
                         self.hads_input_path, convert_hads_path(self),
                         dirs, total)
         IN  IF hads.err # "none"
             THEN [self |-> [aligned.self EXCEPT !.cpm_manager = cpm.m],
                   err |-> hads.err,
                   log |-> cpm.log \cup aligned.log \cup hads.log,
                   step |-> "hads"]
             ELSE [self |-> ClimRecalConfigCpus(
                       [aligned.self EXCEPT
                          !.cpm_manager = cpm.m,
                          !.hads_manager =
                              [cpm_for_coord_alignment |->
                                   aligned.self.cpm_for_coord_alignment]
                              @@ hads.m], total),
                   err |-> "none",
                   log |-> cpm.log \cup aligned.log \cup hads.log,
                   step |-> "cpus"]

\* ClimRecalConfig.__post_init__
ClimRecalConfigPostInit(self, dirs, total) ==
    ClimRecalConfigPostInitHADs(self,
        IF self.convert /\ "CPM" \in self.clim_types
        THEN ConfigManager("CPM", self.variables, self.runs,
                 self.cpm_input_path, convert_cpm_path(self), dirs, total)
        ELSE [m |-> NoManager, err |-> "none", log |-> {}],
        set_cpm_for_coord_alignment(self), dirs, total)

\* Another CPM folder, already converted
ALIGNED == <<"aligned">>

InitConfig ==
    /\ \E gone \in SUBSET FragileDirs : fs_dirs = InputDirs \ gone
    /\ config = NoConfig
    /\ last = NoCall
    /\ IdleResample
    /\ IdleXarray

\* What ClimRecalConfig(...) leaves behind when the fields are self and
\* __post_init__ has ended as r
Constructed(self, total, r) ==
    /\ config' = IF r.err = "none" THEN r.self ELSE config
    /\ log' = log \cup r.log
    /\ last' = [op |-> "ClimRecalConfig", args |-> self, total |-> total,
                err |-> r.err, step |-> r.step, self |-> r.self,
                log |-> r.log]

\* ClimRecalConfig(...)
ConstructConfig ==
    /\ config = NoConfig
    /\ last = NoCall
    /\ \E variables \in VariableSeqs, convert \in BOOLEAN,
          clim_types \in SUBSET {"HADs", "CPM"},
          cpus \in {NoneInt} \cup 1..MaxCpus,
          total \in {NoneInt} \cup 1..MaxCpus,
          cpm_input_path \in {NonePath, RAW},
          cpm_for_coord_alignment \in {NonePath, RAW, ALIGNED} :
          Constructed(
              ClimRecalConfigFields(variables, <<RunOrder[1]>>, convert,
                  clim_types, cpus, RAW, cpm_input_path,
                  cpm_for_coord_alignment),
              total,
              ClimRecalConfigPostInit(
                  ClimRecalConfigFields(variables, <<RunOrder[1]>>, convert,
                      clim_types, cpus, RAW, cpm_input_path,
                      cpm_for_coord_alignment),
                  fs_dirs, total))
    /\ UNCHANGED <<fs_dirs, fs_files, corrupt, mgr, mgr_error, configs, pc,
                   multiprocess, pool_cpus, kw, pos, written_by>>
    /\ UNCHANGED xarray_vars

\* config.set_cpm_for_coord_alignment()
SetCpmForCoordAlignment ==
    /\ config # NoConfig
    /\ LET r == set_cpm_for_coord_alignment(config)
       IN  /\ config' = r.self
           /\ log' = log \cup r.log
           /\ last' = [op |-> "set_cpm_for_coord_alignment",
                       args |-> config, err |-> r.err, self |-> r.self,
                       log |-> r.log]
    /\ UNCHANGED <<fs_dirs, fs_files, corrupt, mgr, mgr_error, configs, pc,
                   multiprocess, pool_cpus, kw, pos, written_by>>
    /\ UNCHANGED xarray_vars

NextConfig == ConstructConfig \/ SetCpmForCoordAlignment

SpecConfig == InitConfig /\ [][NextConfig]_vars

\* The last call built a ClimRecalConfig with HADs to convert and reached
\* the alignment step
ReachedAlignment ==
    /\ last.op = "ClimRecalConfig"
    /\ last.args.convert
    /\ "HADs" \in last.args.clim_types
    /\ last.step # "cpm"

DefaultMessages ==
    {[level |-> "console", msg |-> "Defaulting to 'self.cpm_input_path'",
      path |-> last.args.cpm_input_path]}

\* C22: when HADs is configured the alignment reference is resolved before
\* the HADs Manager is built: an explicit cpm_for_coord_alignment is kept,
\* without one it becomes the raw CPM input path and a message about the
\* default is emitted, without either the construction ends in a
\* ValueError and no HADs Manager is created; the HADs Manager is built
\* with the resolved reference.
C22_AlignmentResolvedFirst ==
    ReachedAlignment =>
        /\ last.args.cpm_for_coord_alignment # NonePath =>
              /\ last.self.cpm_for_coord_alignment
                    = last.args.cpm_for_coord_alignment
              /\ last.log \cap DefaultMessages = {}
              /\ last.step # "alignment"
        /\ (/\ last.args.cpm_for_coord_alignment = NonePath
            /\ last.args.cpm_input_path # NonePath) =>
              /\ last.self.cpm_for_coord_alignment
                    = last.args.cpm_input_path
              /\ DefaultMessages \subseteq last.log
              /\ last.step # "alignment"
        /\ (/\ last.args.cpm_for_coord_alignment = NonePath
            /\ last.args.cpm_input_path = NonePath) =>
              /\ last.err = "ValueError"
              /\ last.step = "alignment"
              /\ last.self.hads_manager = NoManager
        /\ last.self.hads_manager # NoManager =>
              last.self.hads_manager.cpm_for_coord_alignment
                  = last.self.cpm_for_coord_alignment

C22_Witness ==
    /\ ReachedAlignment
    /\ last.args.cpm_for_coord_alignment = ALIGNED
    /\ last.args.cpm_input_path = RAW
    /\ last.err = "none"
    /\ config.hads_manager.cpm_for_coord_alignment = ALIGNED
    /\ config.cpm_manager # NoManager

\* C30: whatever cpus are requested (at least 1, or none) and whatever the
\* total number of cpus is (at least 1, or unknown), the number of cpus
\* execute_configs hands to the pool is at least 1
C30_PoolCpusAtLeastOne ==
    (pc \in {"running", "done"} /\ multiprocess) => pool_cpus >= 1

\* The same of the cpus of a ClimRecalConfig
ConfigCpusAtLeastOne ==
    config # NoConfig => config.cpus >= 1

-----------------------------------------------------------------------------
(* The stages of one CPM conversion and the calls of gdal_warp_wrapper, on *)
(* the paths of the files they read and write.  pc is the stage to run     *)
(* next; written_by holds <<stage, file>> for every file a stage wrote.    *)

\* gdal_warp_wrapper without the overwrite option
gdal_warp_wrapper_paths_no_overwrite(input_path, output_path, dirs, files, projected) ==
    IF \E p \in Ancestors(Parent(output_path)) : p \in files
    THEN [err |-> IF Parent(output_path) \in files
                  THEN "FileExistsError" ELSE "NotADirectoryError",
          dirs |-> dirs, files |-> files,
          warp |-> [called |-> FALSE, overwrite |-> FALSE]]
    ELSE IF output_path \in dirs
    THEN [err |-> "FileExistsError",
          dirs |-> dirs \cup Ancestors(Parent(output_path)),
          files |-> files,
          warp |-> [called |-> FALSE, overwrite |-> FALSE]]
    ELSE [err |-> IF projected /\ input_path \in files
                  THEN "none" ELSE "AssertionError",
          dirs |-> dirs \cup Ancestors(Parent(output_path)),
          files |-> IF projected /\ input_path \in files
                    THEN files \cup {output_path} ELSE files,
          warp |-> [called |-> TRUE, overwrite |-> FALSE]]

\* gdal_warp_wrapper(input_path, output_path) on the file system: the
\* exception it ends with, the directories and files it leaves, and the
\* call of osgeo.gdal.Warp it made; projected tells whether Warp returned
\* a dataset
gdal_warp_wrapper_paths(input_path, output_path, dirs, files, projected) ==
    IF \E p \in Ancestors(Parent(output_path)) : p \in files
    THEN [err |-> IF Parent(output_path) \in files
                  THEN "FileExistsError" ELSE "NotADirectoryError",
          dirs |-> dirs, files |-> files,
          warp |-> [called |-> FALSE, overwrite |-> FALSE]]
    ELSE IF output_path \in dirs
    THEN [err |-> "FileExistsError",
          dirs |-> dirs \cup Ancestors(Parent(output_path)),
          files |-> files,
          warp |-> [called |-> FALSE, overwrite |-> FALSE]]
    ELSE [err |-> IF projected /\ input_path \in files
                  THEN "none" ELSE "AssertionError",
          dirs |-> dirs \cup Ancestors(Parent(output_path)),
          files |-> IF projected /\ input_path \in files
                    THEN files \cup {output_path} ELSE files,
          warp |-> [called |-> TRUE,
                    overwrite |-> input_path = output_path]]

\* The file stage n opens, taken to be the one two stages back where
\* there is one
StageInputTwoBack(n, f, t) ==
    CASE n = 1 -> intermediate_nc_path(f, t)
      [] n = 2 -> intermediate_nc_path(f, t)
      [] n = 3 -> simplified_nc_path(f, t)

\* The file stage n of cpm_reproject_with_standard_calendar opens, and the
\* file it writes, as the accessors give them at time t
StageInput(n, f, t) ==
    CASE n = 1 -> intermediate_nc_path(f, t)
      [] n = 2 -> simplified_nc_path(f, t)
      [] n = 3 -> intermediate_warp_path(f, t)

StageOutput(n, f, t) ==
    CASE n = 0 -> intermediate_nc_path(f, t)
      [] n = 1 -> simplified_nc_path(f, t)
      [] n = 2 -> intermediate_warp_path(f, t)
      [] n = 3 -> final_nc_path(f, t)

MaxStageTicks == 1

EXISTING_TIF == <<"out", "/", "existing", ".tif">>
NEW_TIF == <<"out", "/", "new", "/", "warped", "/", "new", ".tif">>

InitStages ==
    /\ fs_dirs = Ancestors(OUT)
    /\ fs_files = {EXISTING_TIF}
    /\ corrupt = {}
    /\ mgr = NoManager
    /\ mgr_error = "none"
    /\ log = {}
    /\ configs = <<>>
    /\ last = NoCall
    /\ IdleBatch
    /\ config = NoConfig
    /\ IdleXarray

\* cpm_reproject_with_standard_calendar(...) up to the calendar conversion
StartConversion ==
    /\ pc = "idle"
    /\ \E variable_name \in {"tasmax", "pr"}, output_path \in {WORK, OUT},
          k \in 1..NFiles, subfolder_time_stamp \in BOOLEAN,
          expanded \in BOOLEAN :
          /\ files_manager' =
                 IntermediateCPMFilesManager(variable_name, output_path,
                     CPM_LOCAL_INTERMEDIATE_PATH, DateRanges[k][1],
                     DateRanges[k][2], "", subfolder_time_stamp)
          /\ pc' = IF expanded THEN "stage0" ELSE "raised"
          /\ last' = [op |-> "cpm_reproject_with_standard_calendar",
                      err |-> IF expanded THEN "none" ELSE "ValueError"]
    /\ written_by' = {}
    /\ UNCHANGED <<fs_dirs, fs_files, corrupt, mgr, mgr_error, log, configs,
                   multiprocess, pool_cpus, kw, pos, now, file_path,
                   dataset, config>>

\* What stage n leaves behind when it has opened the files reads and
\* written the files writes, and ended with err
StageDone(n, reads, writes, err) ==
    /\ fs_dirs' = fs_dirs \cup
           Ancestors(intermediate_files_folder(files_manager, now))
    /\ fs_files' = fs_files \cup writes
    /\ written_by' = written_by \cup {<<n, p>> : p \in writes}
    /\ pc' = IF err # "none" THEN "raised"
             ELSE IF n = 3 THEN "done"
             ELSE IF n = 2 THEN "stage3"
             ELSE IF n = 1 THEN "stage2" ELSE "stage1"
    /\ last' = [op |-> "stage", stage |-> n, err |-> err, reads |-> reads,
                time |-> now]
    /\ UNCHANGED <<corrupt, mgr, mgr_error, log, configs, multiprocess,
                   pool_cpus, kw, pos, files_manager, now, file_path,
                   dataset, config>>

\* subset_within_ensemble.to_netcdf(intermediate_nc_path)
Stage0 ==
    /\ pc = "stage0"
    /\ StageDone(0, {}, {StageOutput(0, files_manager, now)}, "none")

\* open_dataset(intermediate_nc_path) and to_netcdf(simplified_nc_path)
Stage1 ==
    /\ pc = "stage1"
    /\ IF StageInput(1, files_manager, now) \in fs_files
       THEN StageDone(1, {StageInput(1, files_manager, now)},
                      {StageOutput(1, files_manager, now)}, "none")
       ELSE StageDone(1, {}, {}, "FileNotFoundError")

\* gdal_warp_wrapper(simplified_nc_path, intermediate_warp_path)
Stage2 ==
    /\ pc = "stage2"
    /\ \E projected \in BOOLEAN :
          LET r == gdal_warp_wrapper_paths(
                       StageInput(2, files_manager, now),
                       StageOutput(2, files_manager, now),
                       fs_dirs \cup Ancestors(intermediate_files_folder(
                                                  files_manager, now)),
                       fs_files, projected)
          IN  StageDone(2,
                  IF r.err = "none"
                  THEN {StageInput(2, files_manager, now)} ELSE {},
                  IF r.err = "none"
                  THEN {StageOutput(2, files_manager, now)} ELSE {},
                  r.err)

\* open_dataset(intermediate_warp_path), the assertions on it, and
\* to_netcdf(final_nc_path) with the assertion on the reopened file
Stage3 ==
    /\ pc = "stage3"
    /\ IF StageInput(3, files_manager, now) \notin fs_files
       THEN StageDone(3, {}, {}, "FileNotFoundError")
       ELSE \E warped \in {"as expected", "other crs or length",
                            "other time"} :
               StageDone(3, {StageInput(3, files_manager, now)},
                   IF warped = "other crs or length" THEN {}
                   ELSE {StageOutput(3, files_manager, now)},
                   IF warped = "as expected" THEN "none"
                   ELSE "AssertionError")

\* Time passes between two stages
StageTick ==
    /\ now < MaxStageTicks
    /\ now' = now + 1
    /\ UNCHANGED <<fs_dirs, last, files_manager, file_path, dataset,
                   config>>
    /\ UNCHANGED resample_vars

\* gdal_warp_wrapper(input_path, output_path), called on its own
GdalWarpWrapper ==
    /\ pc \in {"idle", "done", "raised"}
    /\ \E input_path \in {EXISTING_TIF, NEW_TIF},
          output_path \in {EXISTING_TIF, NEW_TIF, Parent(NEW_TIF), OUT,
                           Join(EXISTING_TIF, <<"new", ".tif">>)},
          projected \in BOOLEAN :
          LET r == gdal_warp_wrapper_paths(input_path, output_path, fs_dirs,
                                           fs_files, projected)
          IN  /\ fs_dirs' = r.dirs
              /\ fs_files' = r.files
              /\ last' = [op |-> "gdal_warp_wrapper", err |-> r.err,
                          input_path |-> input_path,
                          output_path |-> output_path,
                          was_dir |-> output_path \in fs_dirs,
                          warp |-> r.warp]
    /\ UNCHANGED <<corrupt, mgr, mgr_error, log, configs, pc, multiprocess,
                   pool_cpus, kw, pos, written_by>>
    /\ UNCHANGED xarray_vars
    /\ UNCHANGED config

NextStages ==
    \/ StartConversion
    \/ Stage0
    \/ Stage1
    \/ Stage2
    \/ Stage3
    \/ StageTick
    \/ GdalWarpWrapper

SpecStages == InitStages /\ [][NextStages]_vars

\* C24: gdal_warp_wrapper creates the missing parent directories of the
\* output path; an output path that is an existing directory ends in a
\* FileExistsError without a call of Warp; with the input path as the
\* output path Warp is called with the overwrite option
C24_WarpWrapperPaths ==
    last.op = "gdal_warp_wrapper" =>
        /\ last.err \in {"none", "AssertionError"} =>
              Ancestors(Parent(last.output_path)) \subseteq fs_dirs
        /\ last.was_dir =>
              /\ last.err = "FileExistsError"
              /\ ~last.warp.called
        /\ (last.warp.called /\ last.input_path = last.output_path) =>
              last.warp.overwrite

C24_Witness ==
    /\ last.op = "gdal_warp_wrapper"
    /\ last.input_path = EXISTING_TIF
    /\ last.output_path = EXISTING_TIF
    /\ last.warp.overwrite
    /\ last.err = "none"
    /\ Parent(NEW_TIF) \in fs_dirs
    /\ NEW_TIF \in fs_files

\* C25: within one CPM conversion the stages run in the order 0, 1, 2, 3;
\* stage 1 opens the file stage 0 wrote, the warp of stage 2 reads the file
\* stage 1 wrote and stage 3 opens the file stage 2 wrote, so that no stage
\* runs before the file it reads is written
C25_StagesInOrder ==
    last.op = "stage" =>
        /\ \A k \in 0..(last.stage - 1) :
              \E e \in written_by : e[1] = k
        /\ \A e \in written_by : e[1] <= last.stage
        /\ (last.err = "none" /\ last.stage > 0) =>
              /\ last.reads # {}
              /\ \A p \in last.reads :
                    /\ <<last.stage - 1, p>> \in written_by
                    /\ p \in fs_files
        /\ (last.err = "none") =>
              \E e \in written_by : e[1] = last.stage /\ e[2] \in fs_files

C25_Witness ==
    /\ last.op = "stage"
    /\ last.stage = 3
    /\ last.err = "none"
    /\ pc = "done"
    /\ Cardinality(written_by) = 4

-----------------------------------------------------------------------------
(* Repeated calls on a Manager and on a Converter *)

\* What a Converter is configured with
Configuration(c) ==
    <<c.kind, c.input_path, c.output_path, c.variable_name, c.start_index,
      c.stop_index>>

\* C27: a call of yield_configs that follows another one on the same
\* Manager yields as many Converters, with the same input paths, output
\* paths, variable names and index window; the path validation it repeats
\* leaves input_paths, output_paths and the two path dicts as they were
C27_YieldConfigsRepeatable ==
    [][(mgr # NoManager /\ last'.op = "yield_configs"
          /\ mgr_error' = "none") =>
          /\ mgr'.input_paths = mgr.input_paths
          /\ mgr'.output_paths = mgr.output_paths
          /\ mgr'.input_path_dict = mgr.input_path_dict
          /\ mgr'.output_path_dict = mgr.output_path_dict
          /\ last'.repeated =>
                /\ Len(configs') = Len(configs)
                /\ \A i \in DOMAIN configs :
                      Configuration(configs'[i]) = Configuration(configs[i])
       ]_vars

C27_Witness ==
    /\ last.op = "yield_configs"
    /\ last.repeated
    /\ mgr_error = "none"
    /\ Len(configs) = MaxConverters
    /\ configs[1].input_path # configs[2].input_path

\* set_input_files(new_input_path): new_input_path is assigned to the
\* attribute input, and the files are listed under input_path
set_input_files(c, new_input_path, dirs) ==
    IF new_input_path # NonePath /\ new_input_path \notin dirs
    THEN [c |-> c, err |-> "AssertionError"]
    ELSE [c |-> [(IF new_input_path # NonePath
                  THEN [input |-> new_input_path] ELSE <<>>) @@ c
                 EXCEPT !.input_files =
                     IF c.input_files = <<>> \/ new_input_path # NonePath
                     THEN Glob(c.input_path, dirs) ELSE @],
          err |-> "none"]

\* CPMResampler.__getstate__ tries pickle.dumps on every attribute and
\* returns nothing; the other Converters have the default __getstate__,
\* which returns the attributes of the instance
NoState == [kind |-> "none"]
getstate(c) == IF c.kind = "CPM" THEN NoState ELSE c

\* The attributes a CPMResampler has from its class: the fields with a
\* default that is no default_factory
RESAMPLE_OUTPUT_PATH == <<"resample">>
CPMResamplerDefaults ==
    [kind |-> "CPM",
     input_path |-> CPMDir(RAW, VariableOrder[1], RunOrder[1]),
     output_path |-> Join(RESAMPLE_OUTPUT_PATH, <<"cpm">>),
     variable_name |-> VariableOrder[1],
     start_index |-> 0,
     stop_index |-> NoneInt,
     input_files |-> <<>>]

\* pickle.loads(pickle.dumps(c)): a state that is None is not pickled, and
\* the instance is made by __new__ alone
pickle_loads_dumps(c) ==
    IF getstate(c) = NoState THEN CPMResamplerDefaults ELSE getstate(c)

\* resampler.set_input_files(new_input_path)
SetInputFiles ==
    /\ pc = "idle"
    /\ configs # <<>>
    /\ \E new_input_path \in
              {NonePath, CPMDir(RAW, VariableOrder[1], RunOrder[1]),
               CPMDir(RAW, VariableOrder[2], RunOrder[2]),
               HADsDir(RAW, VariableOrder[1]), Join(RAW, <<"missing">>)} :
          LET r == set_input_files(configs[1], new_input_path, fs_dirs)
          IN  /\ configs' = <<r.c>>
              /\ last' = [op |-> "set_input_files", err |-> r.err,
                          new_input_path |-> new_input_path]
    /\ UNCHANGED <<xarray_vars, config>>
    /\ UNCHANGED <<fs_dirs, fs_files, corrupt, mgr, mgr_error, log, pc,
                   multiprocess, pool_cpus, kw, pos, written_by>>

\* The Converter is pickled for a worker and unpickled there
PickleResampler ==
    /\ pc = "idle"
    /\ configs # <<>>
    /\ last' = [op |-> "pickle", value |-> pickle_loads_dumps(configs[1])]
    /\ UNCHANGED <<xarray_vars, config>>
    /\ UNCHANGED <<fs_dirs, fs_files, corrupt, mgr, mgr_error, log, configs,
                   pc, multiprocess, pool_cpus, kw, pos, written_by>>

NextResampler == SetInputFiles \/ PickleResampler

SpecResampler == InitConverter /\ [][NextResampler]_vars

\* C26: the listing of input files of a Converter is made at construction
\* and changed by no later operation but set_input_files(new_input_path),
\* after which it is the files with the configured extension under
\* new_input_path
C26_ListingFollowsNewInputPath ==
    /\ (last.op = "set_input_files" /\ last.err = "none"
           /\ last.new_input_path # NonePath) =>
          configs[1].input_files = Glob(last.new_input_path, fs_dirs)
    /\ ~(last.op = "set_input_files" /\ last.err = "none"
           /\ last.new_input_path # NonePath) =>
          configs[1].input_files = Glob(configs[1].input_path, InputDirs)

\* C28: once the result map of a Converter holds an output path for a
\* source file, no later call of to_reprojection, whatever its
\* write_results and return_path, leaves None there
C28_ResultPathKept ==
    [][\A e \in configs[1].result_paths :
          e[2] # NonePath =>
              \E f \in configs'[1].result_paths :
                  f[1] = e[1] /\ f[2] # NonePath]_vars

\* C29: a CPM Converter that is pickled for a worker and unpickled there
\* has the configuration of the original: the same listing of input
\* files, output path, variable name, index window and result map
C29_PickledConverterEqual ==
    (last.op = "pickle" /\ configs[1].kind = "CPM") =>
        /\ "result_paths" \in DOMAIN last.value
        /\ Configuration(last.value) = Configuration(configs[1])
        /\ last.value.input_files = configs[1].input_files
        /\ last.value.result_paths = configs[1].result_paths

====
